---------------------------- MODULE Spec2Model ----------------------------
(***************************************************************************)
(* Model of the 3D transform-and-rendering core of Ultron Workstation:     *)
(* Matrix4 / Vector3 algebra (src/math3d), Camera3D and the projection     *)
(* pipeline (src/render, src/math3d/projection.py), VoxelGrid and its      *)
(* object transform (src/world/voxel_grid.py), picking                     *)
(* (src/world/voxel_editor.py) and the per-frame painter's-algorithm       *)
(* render pass (src/main.py, src/world/voxel_ops.py).                      *)
(*                                                                         *)
(* Numbers.  The program computes in Python floats.  The model computes    *)
(* in exact rationals <<n, d>> (d > 0, lowest terms): every float          *)
(* operation of the source is the corresponding exact operation, and the   *)
(* conversions int() and round() are modelled by what they do (truncation  *)
(* toward zero, round-half-to-even).  Angles are the radians values whose  *)
(* sine and cosine are rational: <<q, t>> stands for q * pi/2 + t * phi    *)
(* with phi = atan2(4, 3) (cos phi = 3/5, sin phi = 4/5), t in -1..1.      *)
(* Rounding error of the floats is therefore outside the model.            *)
(***************************************************************************)
EXTENDS Integers, Sequences, FiniteSets, TLC

(***************************************************************************)
(* Bounds of the model.                                                    *)
(***************************************************************************)
MaxOps == 2        \* transform operations applied to one grid
MaxCoord == 1      \* grid / point coordinates range over -MaxCoord..MaxCoord
MaxDepth == 3      \* projected points have z in -MaxDepth..MaxDepth
MaxVoxels == 3     \* voxels in a rendered scene
MaxSceneOps == 1   \* object transforms applied to a rendered scene
MaxTurns == 4      \* rotate calls in one cycle of turns about an axis
MaxSubmits == 3    \* test_and_set calls on a ZBuffer between two clear() calls
MaxStability == 3  \* stability_frames of a GestureStateMachine ranges over 1..MaxStability
MaxUpdates == 5    \* update() calls on a GestureStateMachine since construction / reset
MaxRoundTrip == 3  \* undo() calls followed by as many redo() calls
MaxRow == 2        \* editor sites (0,0,0) .. (MaxRow - 1,0,0) next to the sample voxels

(***************************************************************************)
(* Exact arithmetic standing for Python float arithmetic.                  *)
(***************************************************************************)
Abs(n) == IF n < 0 THEN -n ELSE n

RECURSIVE GCD(_, _)
GCD(a, b) == IF b = 0 THEN a ELSE GCD(b, a % b)

\* n/d in lowest terms with a positive denominator (d # 0)
Rat(n, d) ==
    LET g == GCD(Abs(n), Abs(d))
        s == IF d < 0 THEN -1 ELSE 1
    IN  <<(s * n) \div g, (s * d) \div g>>

F(n) == <<n, 1>>
F0 == <<0, 1>>
F1 == <<1, 1>>
FHalf == <<1, 2>>

FAdd(a, b) == IF a[2] = b[2]
              THEN (IF a[2] = 1 THEN <<a[1] + b[1], 1>> ELSE Rat(a[1] + b[1], a[2]))
              ELSE Rat(a[1] * b[2] + b[1] * a[2], a[2] * b[2])
FNeg(a) == <<-a[1], a[2]>>
FSub(a, b) == FAdd(a, FNeg(b))
FMul(a, b) == IF a[1] = 0 \/ b[1] = 0 THEN <<0, 1>>
              ELSE IF a[2] = 1 /\ b[2] = 1 THEN <<a[1] * b[1], 1>>
              ELSE Rat(a[1] * b[1], a[2] * b[2])
\* a / b, b # 0 (the callers guard the division as the source does)
FDiv(a, b) == Rat(a[1] * b[2], a[2] * b[1])
FLt(a, b) == a[1] * b[2] < b[1] * a[2]
FLe(a, b) == a[1] * b[2] <= b[1] * a[2]
FAbs(a) == <<Abs(a[1]), a[2]>>
FSum4(a, b, c, d) == FAdd(FAdd(FAdd(a, b), c), d)

\* Python int(x): truncation toward zero
PyInt(a) == IF a[1] >= 0 THEN a[1] \div a[2] ELSE -((-a[1]) \div a[2])

\* Python round(x): nearest integer, ties to the even one
PyRound(a) ==
    LET fl == a[1] \div a[2]
        twice == 2 * (a[1] - fl * a[2])
    IN  IF twice < a[2] THEN fl
        ELSE IF twice > a[2] THEN fl + 1
        ELSE IF fl % 2 = 0 THEN fl ELSE fl + 1

\* The None value of the source (no matrix, no screen point)
None == <<>>

Origin == <<F0, F0, F0>>

(***************************************************************************)
(* Angles with exact sine and cosine: <<q, t>> = q * pi/2 + t * phi.       *)
(***************************************************************************)
CosQ(q) == CASE q % 4 = 0 -> F(1) [] q % 4 = 1 -> F(0)
             [] q % 4 = 2 -> F(-1) [] OTHER -> F(0)
SinQ(q) == CASE q % 4 = 0 -> F(0) [] q % 4 = 1 -> F(1)
             [] q % 4 = 2 -> F(0) [] OTHER -> F(-1)
CosT(t) == IF t = 0 THEN F1 ELSE Rat(3, 5)
SinT(t) == Rat(4 * t, 5)

\* math.cos / math.sin of the angle
Cos(angle) == FSub(FMul(CosQ(angle[1]), CosT(angle[2])),
                   FMul(SinQ(angle[1]), SinT(angle[2])))
Sin(angle) == FAdd(FMul(SinQ(angle[1]), CosT(angle[2])),
                   FMul(CosQ(angle[1]), SinT(angle[2])))
\* -angle
NegAngle(angle) == <<-angle[1], -angle[2]>>

(***************************************************************************)
(* Matrix4 (src/math3d/matrix.py).  data[i][j] of the source is M[i+1][j+1].*)
(***************************************************************************)
Matrix4 == [i \in 1..4 |-> [j \in 1..4 |-> F0]]

identity == [i \in 1..4 |-> [j \in 1..4 |-> IF i = j THEN F1 ELSE F0]]

from_translation(x, y, z) ==
    [identity EXCEPT ![1][4] = x, ![2][4] = y, ![3][4] = z]

\* the scale applied to the homogeneous coordinate as well
from_scale_with_w(sx, sy, sz) ==
    [identity EXCEPT ![1][1] = sx, ![2][2] = sy, ![3][3] = sz, ![4][4] = sx]

from_scale(sx, sy, sz) ==
    [identity EXCEPT ![1][1] = sx, ![2][2] = sy, ![3][3] = sz]

from_rotation_x(angle) ==
    LET c == Cos(angle)
        s == Sin(angle)
    IN  [identity EXCEPT ![2][2] = c, ![2][3] = FNeg(s), ![3][2] = s, ![3][3] = c]

from_rotation_y(angle) ==
    LET c == Cos(angle)
        s == Sin(angle)
    IN  [identity EXCEPT ![1][1] = c, ![1][3] = s, ![3][1] = FNeg(s), ![3][3] = c]

\* the rotation about Z with the sign of the upper sine lost
from_rotation_z_unsigned(angle) ==
    LET c == Cos(angle)
        s == Sin(angle)
    IN  [identity EXCEPT ![1][1] = c, ![1][2] = s, ![2][1] = s, ![2][2] = c]

from_rotation_z(angle) ==
    LET c == Cos(angle)
        s == Sin(angle)
    IN  [identity EXCEPT ![1][1] = c, ![1][2] = FNeg(s), ![2][1] = s, ![2][2] = c]

\* the sum taken over k in range(3): the fourth term of every entry dropped
multiply_three_terms(self, other) ==
    LET E(i, j) == FAdd(FAdd(FMul(self[i][1], other[1][j]), FMul(self[i][2], other[2][j])),
                        FMul(self[i][3], other[3][j]))
        Row(i) == <<E(i, 1), E(i, 2), E(i, 3), E(i, 4)>>
    IN  <<Row(1), Row(2), Row(3), Row(4)>>

\* the operands taken in the other order
multiply_reversed(self, other) ==
    LET E(i, j) == FSum4(FMul(other[i][1], self[1][j]), FMul(other[i][2], self[2][j]),
                         FMul(other[i][3], self[3][j]), FMul(other[i][4], self[4][j]))
        Row(i) == <<E(i, 1), E(i, 2), E(i, 3), E(i, 4)>>
    IN  <<Row(1), Row(2), Row(3), Row(4)>>

multiply(self, other) ==
    LET E(i, j) == FSum4(FMul(self[i][1], other[1][j]), FMul(self[i][2], other[2][j]),
                         FMul(self[i][3], other[3][j]), FMul(self[i][4], other[4][j]))
        Row(i) == <<E(i, 1), E(i, 2), E(i, 3), E(i, 4)>>
    IN  <<Row(1), Row(2), Row(3), Row(4)>>

\* Z * Y * X
from_rotation_xyz(rx, ry, rz) ==
    multiply(multiply(from_rotation_z(rz), from_rotation_y(ry)), from_rotation_x(rx))

\* point is <<x, y, z>>; the result is <<tx, ty, tz, tw>> with w = 1 on input
transform_point(self, point) ==
    LET E(i) == FSum4(FMul(self[i][1], point[1]), FMul(self[i][2], point[2]),
                      FMul(self[i][3], point[3]), FMul(self[i][4], F1))
    IN  <<E(1), E(2), E(3), E(4)>>

\* pt[:3]
Xyz(pt) == <<pt[1], pt[2], pt[3]>>


\* np.linalg.inv: the exact inverse; LinAlgError (caught, -> None) exactly for
\* a singular matrix.  The Laplace expansion by 2x2 minors stands for the
\* LAPACK solve.
Det2(self, r1, r2, c1, c2) ==
    FSub(FMul(self[r1][c1], self[r2][c2]), FMul(self[r2][c1], self[r1][c2]))

\* x*p - y*q + z*r
Tri(x, p, y, q, z, r) == FAdd(FSub(FMul(x, p), FMul(y, q)), FMul(z, r))

\* the 2x2 minors of rows 1,2 (s0..s5) and of rows 3,4 (c0..c5)
Minors(a) ==
    <<Det2(a, 1, 2, 1, 2), Det2(a, 1, 2, 1, 3), Det2(a, 1, 2, 1, 4),
      Det2(a, 1, 2, 2, 3), Det2(a, 1, 2, 2, 4), Det2(a, 1, 2, 3, 4),
      Det2(a, 3, 4, 1, 2), Det2(a, 3, 4, 1, 3), Det2(a, 3, 4, 1, 4),
      Det2(a, 3, 4, 2, 3), Det2(a, 3, 4, 2, 4), Det2(a, 3, 4, 3, 4)>>

Det4(a) ==
    LET m == Minors(a)
    IN  FAdd(Tri(m[1], m[12], m[2], m[11], m[3], m[10]),
             Tri(m[4], m[9], m[5], m[8], m[6], m[7]))

Adjugate(a) ==
    LET m == Minors(a)
        s0 == m[1]  s1 == m[2]  s2 == m[3]  s3 == m[4]  s4 == m[5]  s5 == m[6]
        c0 == m[7]  c1 == m[8]  c2 == m[9]  c3 == m[10] c4 == m[11] c5 == m[12]
    IN  <<
        <<Tri(a[2][2], c5, a[2][3], c4, a[2][4], c3),
          FNeg(Tri(a[1][2], c5, a[1][3], c4, a[1][4], c3)),
          Tri(a[4][2], s5, a[4][3], s4, a[4][4], s3),
          FNeg(Tri(a[3][2], s5, a[3][3], s4, a[3][4], s3))>>,
        <<FNeg(Tri(a[2][1], c5, a[2][3], c2, a[2][4], c1)),
          Tri(a[1][1], c5, a[1][3], c2, a[1][4], c1),
          FNeg(Tri(a[4][1], s5, a[4][3], s2, a[4][4], s1)),
          Tri(a[3][1], s5, a[3][3], s2, a[3][4], s1)>>,
        <<Tri(a[2][1], c4, a[2][2], c2, a[2][4], c0),
          FNeg(Tri(a[1][1], c4, a[1][2], c2, a[1][4], c0)),
          Tri(a[4][1], s4, a[4][2], s2, a[4][4], s0),
          FNeg(Tri(a[3][1], s4, a[3][2], s2, a[3][4], s0))>>,
        <<FNeg(Tri(a[2][1], c3, a[2][2], c1, a[2][3], c0)),
          Tri(a[1][1], c3, a[1][2], c1, a[1][3], c0),
          FNeg(Tri(a[4][1], s3, a[4][2], s1, a[4][3], s0)),
          Tri(a[3][1], s3, a[3][2], s1, a[3][3], s0)>> >>

\* the inverse with the adjugate left untransposed
inverse_untransposed(self) ==
    LET det == Det4(self)
        adj == Adjugate(self)
    IN  IF det = F0 THEN None
        ELSE [i \in 1..4 |-> [j \in 1..4 |-> FDiv(adj[j][i], det)]]

\* a zero matrix instead of the None sentinel for a singular matrix
inverse_no_sentinel(self) ==
    LET det == Det4(self)
        adj == Adjugate(self)
    IN  IF det = F0 THEN Matrix4
        ELSE [i \in 1..4 |-> [j \in 1..4 |-> FDiv(adj[i][j], det)]]

inverse(self) ==
    LET det == Det4(self)
        adj == Adjugate(self)
    IN  IF det = F0 THEN None
        ELSE [i \in 1..4 |-> [j \in 1..4 |-> FDiv(adj[i][j], det)]]

(***************************************************************************)
(* State.                                                                  *)
(***************************************************************************)
VARIABLES
    \* test_matrix_ops (src/experiments/transform_test.py): the operands, the
    \* point, and the values computed so far
    m_a, m_b, m_p, m_c, m_pt, m_inv, m_orig, m_stage,
    \* VoxelGrid: the voxel map (a dict: <<pos, colour>> entries in insertion
    \* order, keys unique) and the object transform
    grid, transform,
    \* VoxelEditor.cursor_pos, and the raw_point of the call named by "call"
    \* when that is hand_to_world (None otherwise)
    cursor_pos, raw_point,
    \* the elementary operations that reached "self.transform = op.multiply(...)",
    \* oldest first, and the last call on the grid / editor with its outcome
    ops, call,
    \* the Camera3D object, the last project_3d_to_2d call on it with its
    \* result, and the target of the look_at call that set its rotation (None
    \* when the rotation was set otherwise)
    camera, projected, looked_at,
    \* one frame of main's loop: whether the render pass has run on it, the
    \* order in which it visited the voxels, the fill / outline calls made on
    \* the raster surface, and the two diagnostic counters
    rendered, draw_order, frame, voxels_drawn, voxels_clipped,
    \* the list returned by the last sort_voxels_by_depth call on the scene
    sorted_pack,
    \* a ZBuffer object, the test_and_set calls made on it since the last
    \* clear() with their results, and how the installed NumPy compares a
    \* Python float with a float32 element
    zbuffer, zb_calls, np_promotion,
    \* a GestureStateMachine object and the update() calls made on it since
    \* it was constructed or reset, each with the gesture it returned
    sm, updates,
    \* a ToolManager object on the grid, and time.time() - last_action_time
    \* as far as use_tool tells it apart (capped at action_cooldown)
    tm, since_action,
    \* the placement and erase state of the VoxelEditor on the grid,
    \* time.time() - last_placement_time and time.time() - last_erase_time
    \* (capped at the cooldown each is compared with), and the place_voxel
    \* call that was made last with its result (None after any other call)
    editor, since_placement, since_erase, placed

matVars == <<m_a, m_b, m_p, m_c, m_pt, m_inv, m_orig, m_stage>>
gridVars == <<grid, transform, cursor_pos, raw_point, ops, call>>
camVars == <<camera, projected, looked_at>>
renderVars == <<rendered, draw_order, frame, voxels_drawn, voxels_clipped, sorted_pack>>
zbVars == <<zbuffer, zb_calls, np_promotion>>
gestureVars == <<sm, updates>>
toolVars == <<tm, since_action>>
editVars == <<editor, since_placement, since_erase, placed>>
uiVars == <<gestureVars, toolVars, editVars>>
vars == <<matVars, gridVars, camVars, renderVars, zbVars, uiVars>>
\* what the operations of one component leave alone
notMat == <<gridVars, camVars, renderVars, zbVars, uiVars>>
notGrid == <<matVars, camVars, zbVars, uiVars>>
notCam == <<matVars, gridVars, zbVars, uiVars>>

\* main's loop starts every iteration on a fresh frame with both counters 0;
\* the scene is edited before the render pass of the iteration
NewFrame ==
    /\ rendered' = FALSE /\ draw_order' = <<>> /\ frame' = <<>>
    /\ voxels_drawn' = 0 /\ voxels_clipped' = 0
    /\ sorted_pack' = None

Coords == (-MaxCoord)..MaxCoord
Points == {<<F(x), F(y), F(z)>> : x \in Coords, y \in Coords, z \in Coords}

(***************************************************************************)
(* Matrix4 exercised as transform_test.test_matrix_ops does:               *)
(*   c = a.multiply(b); pt = c.transform_point(p); inv = c.inverse();      *)
(*   p_orig = inv.transform_point(pt[:3])                                  *)
(***************************************************************************)
Translations == {from_translation(F(10), F(20), F(30)),
                 from_translation(F(-1), FHalf, F0)}
Scales == {from_scale(F(2), F(2), F(2)), from_scale(FHalf, FHalf, FHalf),
           from_scale(F(-1), F(2), F(3)), from_scale(F0, F0, F0)}
Rotations == {from_rotation_x(<<1, 0>>), from_rotation_y(<<0, 1>>),
              from_rotation_z(<<1, 1>>)}
AffineSamples == {identity} \cup Translations \cup Scales \cup Rotations

MatInit ==
    /\ m_a \in AffineSamples
    /\ m_b \in AffineSamples
    /\ m_p \in Points
    /\ m_c = None /\ m_pt = None /\ m_inv = None /\ m_orig = None
    /\ m_stage = "built"

\* no matrix test in progress
MatIdle ==
    /\ m_a = identity /\ m_b = identity /\ m_p = <<F0, F0, F0>>
    /\ m_c = None /\ m_pt = None /\ m_inv = None /\ m_orig = None
    /\ m_stage = "built"

MatCompose ==
    /\ m_stage = "built"
    /\ m_c' = multiply(m_a, m_b)
    /\ m_stage' = "composed"
    /\ UNCHANGED <<m_a, m_b, m_p, m_pt, m_inv, m_orig, notMat>>

MatTransform ==
    /\ m_stage = "composed"
    /\ m_pt' = transform_point(m_c, m_p)
    /\ m_stage' = "transformed"
    /\ UNCHANGED <<m_a, m_b, m_p, m_c, m_inv, m_orig, notMat>>

MatInvert ==
    /\ m_stage = "transformed"
    /\ m_inv' = inverse(m_c)
    /\ m_stage' = "inverted"
    /\ UNCHANGED <<m_a, m_b, m_p, m_c, m_pt, m_orig, notMat>>

\* inv.transform_point needs a matrix: the caller checks the sentinel first
MatRestore ==
    /\ m_stage = "inverted"
    /\ m_inv # None
    /\ m_orig' = transform_point(m_inv, Xyz(m_pt))
    /\ m_stage' = "restored"
    /\ UNCHANGED <<m_a, m_b, m_p, m_c, m_pt, m_inv, notMat>>

MatNext == MatCompose \/ MatTransform \/ MatInvert \/ MatRestore


(***************************************************************************)
(* VoxelGrid (src/world/voxel_grid.py) and picking                         *)
(* (VoxelEditor.hand_to_world, src/world/voxel_editor.py).                 *)
(***************************************************************************)
GridCoords == {<<x, y, z>> : x \in Coords, y \in Coords, z \in Coords}
Colors == {"red", "green"}

\* an integer grid coordinate as a point
ToF(pos) == <<F(pos[1]), F(pos[2]), F(pos[3])>>

\* self.grid[pos] = value on a dict: a present key keeps its place
set_voxel(self, pos, value) ==
    IF \E i \in DOMAIN self : self[i][1] = pos
    THEN [i \in DOMAIN self |-> IF self[i][1] = pos THEN <<pos, value>> ELSE self[i]]
    ELSE Append(self, <<pos, value>>)

\* VoxelGrid(create_sample=...): empty, or the sample structure with
\* random.choice colours (two voxels here instead of the 26 of the shell)
SampleGrids ==
    {<<>>} \cup
    {set_voxel(set_voxel(<<>>, <<-1, 0, 0>>, c), <<0, 1, 0>>, "red") : c \in {"green"}}

\* str.lower() on the axis identifiers the model passes
Lower(axis) ==
    CASE axis = "X" -> "x" [] axis = "Y" -> "y" [] axis = "Z" -> "z" [] OTHER -> axis

\* VoxelGrid.translate / rotate / scale: the new value of self.transform
\* the translation applied along the object's own axes (current * T)
translate_local(self, x, y, z) == multiply(self, from_translation(x, y, z))

translate(self, x, y, z) == multiply(from_translation(x, y, z), self)

\* the rotation applied about the object's own axes (current * R)
rotate_local(self, axis, angle) ==
    IF Lower(axis) = "x" THEN multiply(self, from_rotation_x(angle))
    ELSE IF Lower(axis) = "y" THEN multiply(self, from_rotation_y(angle))
    ELSE IF Lower(axis) = "z" THEN multiply(self, from_rotation_z(angle))
    ELSE self

rotate(self, axis, angle) ==
    IF Lower(axis) = "x" THEN multiply(from_rotation_x(angle), self)
    ELSE IF Lower(axis) = "y" THEN multiply(from_rotation_y(angle), self)
    ELSE IF Lower(axis) = "z" THEN multiply(from_rotation_z(angle), self)
    ELSE self

\* the scale matrix stored in place of the product
scale_replacing(self, factor) == from_scale(factor, factor, factor)

scale(self, factor) == multiply(from_scale(factor, factor, factor), self)

\* map_depth_to_world (src/vision/depth_mapper.py), input_range = (-0.15, 0.05)
map_depth_to_world(depth_normalized, min_depth, max_depth) ==
    LET input_min == Rat(-3, 20)
        input_max == Rat(1, 20)
        depth_clamped == IF FLt(depth_normalized, input_min) THEN input_min
                         ELSE IF FLt(input_max, depth_normalized) THEN input_max
                         ELSE depth_normalized
        normalized == FDiv(FSub(depth_clamped, input_min), FSub(input_max, input_min))
    IN  FAdd(min_depth, FMul(FSub(F1, normalized), FSub(max_depth, min_depth)))

\* raw_point of hand_to_world
HandRaw(hand_x, hand_y, hand_z) ==
    <<FMul(FSub(hand_x, FHalf), F(10)),
      FNeg(FMul(FSub(hand_y, FHalf), F(10))),
      map_depth_to_world(hand_z, F(-3), F(3))>>

RoundPoint(pt) == <<PyRound(pt[1]), PyRound(pt[2]), PyRound(pt[3])>>

\* the picking step: inverse object transform, then snap; None when the
\* inverse is the None sentinel
PickWith(inv, raw) ==
    IF inv # None THEN RoundPoint(transform_point(inv, raw)) ELSE None

PickLocal(self, raw) == PickWith(inverse(self), raw)

\* hand_to_world before the object transform existed: the snapped raw point
hand_to_world_untransformed(self, hand_x, hand_y, hand_z) ==
    RoundPoint(HandRaw(hand_x, hand_y, hand_z))

\* VoxelEditor.hand_to_world: a Matrix4 object is always truthy
hand_to_world(self, hand_x, hand_y, hand_z) ==
    LET raw == HandRaw(hand_x, hand_y, hand_z)
        picked == PickLocal(self, raw)
    IN  IF picked # None THEN picked ELSE RoundPoint(raw)

Op(kind, axis, angle, v, factor) ==
    [kind |-> kind, axis |-> axis, angle |-> angle, v |-> v, factor |-> factor]
Call(name, axis, outcome) == [name |-> name, axis |-> axis, outcome |-> outcome]

TranslateArgs == {<<F(1), F(0), F(0)>>, <<F(0), F(-2), F(1)>>}
RotateArgs == {<<"x", <<1, 0>>>>, <<"Y", <<0, 1>>>>, <<"z", <<0, -1>>>>,
               <<"w", <<1, 0>>>>}
ScaleArgs == {F(2), F0}
\* (hand_x, hand_y, hand_z): raw points (0,0,0), (1,0,0), (2,0,0), (0,-2,1)
\* and (3/2, 1/2, 3)
HandArgs == {<<Rat(5, 10), Rat(5, 10), Rat(-1, 20)>>,
             <<Rat(6, 10), Rat(5, 10), Rat(-1, 20)>>,
             <<Rat(7, 10), Rat(5, 10), Rat(-1, 20)>>,
             <<Rat(5, 10), Rat(7, 10), Rat(-1, 12)>>,
             <<Rat(13, 20), Rat(9, 20), Rat(-1, 1)>>}

GridInit ==
    /\ grid \in SampleGrids
    /\ transform = identity
    /\ cursor_pos = <<0, 0, 0>>
    /\ raw_point = None
    /\ ops = <<>>
    /\ call = Call("init", "", "returned")

Translate ==
    \E v \in TranslateArgs :
        /\ Len(ops) < MaxOps
        /\ transform' = translate(transform, v[1], v[2], v[3])
        /\ ops' = Append(ops, Op("translate", "", <<0, 0>>, v, F1))
        /\ call' = Call("translate", "", "returned")
        /\ raw_point' = None
        /\ NewFrame
        /\ UNCHANGED <<grid, cursor_pos, notGrid>>

\* an axis other than x, y, z takes the "else: return" branch
Rotate ==
    \E a \in RotateArgs :
        /\ Len(ops) < MaxOps
        /\ transform' = rotate(transform, a[1], a[2])
        /\ ops' = IF Lower(a[1]) \in {"x", "y", "z"}
                  THEN Append(ops, Op("rotate", Lower(a[1]), a[2], <<F0, F0, F0>>, F1))
                  ELSE ops
        /\ call' = Call("rotate", a[1], "returned")
        /\ raw_point' = None
        /\ NewFrame
        /\ UNCHANGED <<grid, cursor_pos, notGrid>>

Scale ==
    \E f \in ScaleArgs :
        /\ Len(ops) < MaxOps
        /\ transform' = scale(transform, f)
        /\ ops' = Append(ops, Op("scale", "", <<0, 0>>, <<F0, F0, F0>>, f))
        /\ call' = Call("scale", "", "returned")
        /\ raw_point' = None
        /\ NewFrame
        /\ UNCHANGED <<grid, cursor_pos, notGrid>>

\* main: voxel_editor.cursor_pos = voxel_editor.hand_to_world(...)
HandToWorld ==
    \E h \in HandArgs :
        /\ cursor_pos' = hand_to_world(transform, h[1], h[2], h[3])
        /\ raw_point' = HandRaw(h[1], h[2], h[3])
        /\ call' = Call("hand_to_world", "", "returned")
        /\ UNCHANGED <<grid, transform, ops, notGrid, renderVars>>

GridNext == Translate \/ Rotate \/ Scale \/ HandToWorld

(***************************************************************************)
(* Camera3D (src/render/camera3d.py) and the projection pipeline           *)
(* (src/math3d/projection.py, src/render/pseudo3d.py).                     *)
(***************************************************************************)
\* math.tan(math.radians(fov) / 2.0): exact for 90 degrees; for 60 degrees
\* the irrational 0.57735... is taken as 15/26 = 0.57692...
TanHalfFov(fov) == CASE fov = 90 -> F1 [] fov = 60 -> Rat(15, 26)

perspective_matrix(fov, aspect, near, far) ==
    LET tan_half_fov == TanHalfFov(fov)
    IN  [Matrix4 EXCEPT
            ![1][1] = FDiv(F1, FMul(aspect, tan_half_fov)),
            ![2][2] = FDiv(F1, tan_half_fov),
            ![3][3] = FNeg(FDiv(FAdd(far, near), FSub(far, near))),
            ![3][4] = FNeg(FDiv(FMul(FMul(F(2), far), near), FSub(far, near))),
            ![4][3] = F(-1),
            ![4][4] = F0]

view_matrix(position, rotation) ==
    LET rot == from_rotation_xyz(NegAngle(rotation[1]), NegAngle(rotation[2]),
                                 NegAngle(rotation[3]))
        trans == from_translation(FNeg(position[1]), FNeg(position[2]), FNeg(position[3]))
    IN  multiply(rot, trans)

\* the screen coordinates rounded down instead of truncated toward zero
viewport_transform_floor(ndc_point, width, height) ==
    LET screen_x == FMul(FMul(FAdd(ndc_point[1], F1), FHalf), F(width))
        screen_y == FMul(FMul(FSub(F1, ndc_point[2]), FHalf), F(height))
    IN  <<screen_x[1] \div screen_x[2], screen_y[1] \div screen_y[2]>>

viewport_transform(ndc_point, width, height) ==
    LET screen_x == FMul(FMul(FAdd(ndc_point[1], F1), FHalf), F(width))
        screen_y == FMul(FMul(FSub(F1, ndc_point[2]), FHalf), F(height))
    IN  <<PyInt(screen_x), PyInt(screen_y)>>

Camera3D(position, rotation, fov, near, far) ==
    [position |-> position, rotation |-> rotation, fov |-> fov, near |-> near, far |-> far]

get_view_matrix(self) == view_matrix(self.position, self.rotation)
get_projection_matrix(self, aspect_ratio) ==
    perspective_matrix(self.fov, aspect_ratio, self.near, self.far)

\* Vector3.normalize for a vector whose length is rational; the zero vector
\* is returned as it is
ISqrt(n) == CHOOSE r \in 0..n : r * r = n
Sqrt(a) == Rat(ISqrt(a[1]), ISqrt(a[2]))
normalize(v) ==
    LET length == Sqrt(FAdd(FAdd(FMul(v[1], v[1]), FMul(v[2], v[2])), FMul(v[3], v[3])))
    IN  IF FLt(F0, length) THEN <<FDiv(v[1], length), FDiv(v[2], length), FDiv(v[3], length)>>
        ELSE <<F0, F0, F0>>

\* the angles q * pi/2 + t * phi in (-pi, pi]; phi is about 0.59 * pi/2
HalfTurnAngles ==
    {a \in (-2..2) \X (-1..1) : -200 < 100 * a[1] + 59 * a[2] /\ 100 * a[1] + 59 * a[2] <= 200}

\* math.asin(v) in [-pi/2, pi/2] and math.atan2(y, x) in (-pi, pi]
Asin(v) ==
    CHOOSE a \in HalfTurnAngles :
        /\ Sin(a) = v
        /\ -100 <= 100 * a[1] + 59 * a[2] /\ 100 * a[1] + 59 * a[2] <= 100
Atan2(y, x) ==
    IF x = F0 /\ y = F0 THEN <<0, 0>>
    ELSE CHOOSE a \in HalfTurnAngles :
             /\ FMul(x, Sin(a)) = FMul(y, Cos(a))
             /\ FLt(F0, FAdd(FMul(x, Cos(a)), FMul(y, Sin(a))))

\* Camera3D.look_at(target): the camera afterwards
look_at(self, target) ==
    LET direction == normalize(<<FSub(target[1], self.position[1]),
                                 FSub(target[2], self.position[2]),
                                 FSub(target[3], self.position[3])>>)
        pitch == Asin(FNeg(direction[2]))
        yaw == Atan2(direction[1], direction[3])
    IN  [self EXCEPT !.rotation = <<pitch, yaw, <<0, 0>>>>]

\* target - position of the look_at calls: along Z and X on both sides,
\* above, off the axes, and the camera's own position
LookOffsets == {<<F0, F0, F(3)>>, <<F0, F0, F(-3)>>, <<F(3), F0, F0>>, <<F(-3), F0, F0>>,
                <<F0, F(3), F0>>, <<F(4), F0, F(3)>>, <<F0, F(-4), F(3)>>, <<F0, F0, F0>>}

\* 1e-6 and 1.5
Epsilon == Rat(1, 1000000)
\* the true frustum edge, without the margin
UnitMargin == F1
CullMargin == Rat(3, 2)

\* the view-space Z of a point
ViewZ(point_3d, cam) == transform_point(get_view_matrix(cam), point_3d)[3]

\* the result for a point in front of the camera: perspective divide, margin
\* cull, viewport, depth
ProjectFront(view_space, cam, screen_width, screen_height) ==
    LET proj == get_projection_matrix(cam, Rat(screen_width, screen_height))
        clip_space == transform_point(proj, Xyz(view_space))
        cw == clip_space[4]
        ndc_x == FDiv(clip_space[1], cw)
        ndc_y == FDiv(clip_space[2], cw)
        ndc_z == FDiv(clip_space[3], cw)
        screen == viewport_transform(<<ndc_x, ndc_y>>, screen_width, screen_height)
        depth == FMul(FAdd(ndc_z, F1), FHalf)
    IN  IF FLt(FAbs(cw), Epsilon) THEN None
        ELSE IF FLt(CullMargin, FAbs(ndc_x)) \/ FLt(CullMargin, FAbs(ndc_y)) THEN None
        ELSE <<screen[1], screen[2], depth>>

\* the pipeline without the "if vz >= 0" rejection
project_3d_to_2d_no_cull(point_3d, cam, screen_width, screen_height) ==
    LET view_space == transform_point(get_view_matrix(cam), point_3d)
    IN  ProjectFront(view_space, cam, screen_width, screen_height)

project_3d_to_2d(point_3d, cam, screen_width, screen_height) ==
    LET view_space == transform_point(get_view_matrix(cam), point_3d)
    IN  IF FLe(F0, view_space[3]) THEN None
        ELSE ProjectFront(view_space, cam, screen_width, screen_height)

\* Camera3D(...) as main.py, voxel_projection_test.py and a caller with a
\* narrow depth range construct it
CameraConfigs ==
    {Camera3D(<<F0, F0, F(15)>>, <<<<0, 0>>, <<0, 0>>, <<0, 0>>>>, 60, Rat(1, 10), F(100)),
     Camera3D(<<F0, F0, F(-5)>>, <<<<0, 0>>, <<0, 0>>, <<0, 0>>>>, 60, Rat(1, 10), F(100)),
     Camera3D(<<F0, F0, F(2)>>, <<<<0, 0>>, <<0, 0>>, <<0, 0>>>>, 90, F(2), F(4))}
CameraPositions == {<<F0, F0, F1>>, <<F1, F(-1), F0>>}
CameraRotations == {<<<<0, 0>>, <<0, 0>>, <<0, 0>>>>, <<<<0, 0>>, <<2, 0>>, <<0, 0>>>>,
                    <<<<0, 1>>, <<0, 0>>, <<0, 0>>>>, <<<<0, 0>>, <<0, 1>>, <<1, 0>>>>}
ScreenSizes == {<<1920, 1080>>}
\* the points handed to project_3d_to_2d
ProjPoints ==
    {<<F(x), F(y), F(z)>> : x \in {-2, 0, 2}, y \in {0}, z \in (-MaxDepth)..MaxDepth}
        \cup {<<F0, Rat(5, 2), F0>>}

NoProjection == [point |-> Origin, size |-> <<0, 0>>, result |-> None, done |-> FALSE]

CamInit ==
    /\ camera \in CameraConfigs
    /\ projected = NoProjection
    /\ looked_at = None

CamIdle ==
    /\ camera = Camera3D(<<F0, F0, F(15)>>, <<<<0, 0>>, <<0, 0>>, <<0, 0>>>>,
                         60, Rat(1, 10), F(100))
    /\ projected = NoProjection
    /\ looked_at = None

SetPosition ==
    \E pos \in CameraPositions :
        /\ camera' = [camera EXCEPT !.position = pos]
        /\ projected' = NoProjection
        /\ looked_at' = None
        /\ NewFrame
        /\ UNCHANGED notCam

SetRotation ==
    \E rot \in CameraRotations :
        /\ camera' = [camera EXCEPT !.rotation = rot]
        /\ projected' = NoProjection
        /\ looked_at' = None
        /\ NewFrame
        /\ UNCHANGED notCam

Project ==
    \E point \in ProjPoints, size \in ScreenSizes :
        /\ projected' = [point |-> point, size |-> size, done |-> TRUE,
                         result |-> project_3d_to_2d(point, camera, size[1], size[2])]
        /\ UNCHANGED <<camera, looked_at, notCam, renderVars>>

\* camera.look_at(target) for a target at one of the offsets from the camera
LookAt ==
    \E target \in {<<FAdd(camera.position[1], offset[1]), FAdd(camera.position[2], offset[2]),
                     FAdd(camera.position[3], offset[3])>> : offset \in LookOffsets} :
        /\ camera' = look_at(camera, target)
        /\ looked_at' = target
        /\ projected' = NoProjection
        /\ NewFrame
        /\ UNCHANGED notCam

ProjNext == SetPosition \/ SetRotation \/ Project \/ LookAt

(***************************************************************************)
(* Voxel geometry, depth sort and drawing (src/world/voxel_ops.py) and the *)
(* render pass of main's loop (src/main.py).                               *)
(***************************************************************************)
get_voxel_cube_vertices(position, size) ==
    LET x == position[1]
        y == position[2]
        z == position[3]
        half == FDiv(size, F(2))
    IN  <<<<FSub(x, half), FSub(y, half), FSub(z, half)>>,
          <<FAdd(x, half), FSub(y, half), FSub(z, half)>>,
          <<FAdd(x, half), FAdd(y, half), FSub(z, half)>>,
          <<FSub(x, half), FAdd(y, half), FSub(z, half)>>,
          <<FSub(x, half), FSub(y, half), FAdd(z, half)>>,
          <<FAdd(x, half), FSub(y, half), FAdd(z, half)>>,
          <<FAdd(x, half), FAdd(y, half), FAdd(z, half)>>,
          <<FSub(x, half), FAdd(y, half), FAdd(z, half)>>>>

\* the six faces; the source's 0-based vertex indices are 1-based here
get_voxel_faces ==
    <<<<1, 2, 3, 4>>, <<5, 6, 7, 8>>, <<1, 2, 6, 5>>,
      <<3, 4, 8, 7>>, <<1, 4, 8, 5>>, <<2, 3, 7, 6>>>>

\* (px-cx)**2 + (py-cy)**2 + (pz-cz)**2
distance_squared(pos, cam_pos) ==
    LET dx == FSub(pos[1], cam_pos[1])
        dy == FSub(pos[2], cam_pos[2])
        dz == FSub(pos[3], cam_pos[3])
    IN  FAdd(FAdd(FMul(dx, dx), FMul(dy, dy)), FMul(dz, dz))

\* the same list in ascending key order
sorted_ascending(items, keys) ==
    LET n == Len(items)
        Rank(i) == Cardinality({j \in 1..n : FLt(keys[j], keys[i])})
                   + Cardinality({j \in 1..(i - 1) : keys[j] = keys[i]}) + 1
        RECURSIVE From(_)
        From(k) == IF k > n THEN <<>>
                   ELSE <<items[CHOOSE i \in 1..n : Rank(i) = k]>> \o From(k + 1)
    IN  From(1)

\* sorted(items, key=..., reverse=True) and list.sort(key=..., reverse=True),
\* keys[i] being the key of items[i]: descending by key, items with equal
\* keys keep their original order
sorted_reverse(items, keys) ==
    LET n == Len(items)
        Rank(i) == Cardinality({j \in 1..n : FLt(keys[i], keys[j])})
                   + Cardinality({j \in 1..(i - 1) : keys[j] = keys[i]}) + 1
        RECURSIVE From(_)
        From(k) == IF k > n THEN <<>>
                   ELSE <<items[CHOOSE i \in 1..n : Rank(i) = k]>> \o From(k + 1)
    IN  From(1)

\* voxels: a list of (position, color)
sort_voxels_by_depth(voxels, cam) ==
    sorted_reverse(voxels,
        [i \in 1..Len(voxels) |-> distance_squared(ToF(voxels[i][1]), cam.position)])

\* the two calls draw_voxel makes on the frame for one face
FillPoly(points_2d, color) == [op |-> "fillPoly", points |-> points_2d, color |-> color]
Polylines(points_2d) == [op |-> "polylines", points |-> points_2d, color |-> "white"]
Points2d(face_verts) ==
    [k \in 1..Len(face_verts) |-> IF face_verts[k] = None THEN None
                                   ELSE <<face_verts[k][1], face_verts[k][2]>>]

\* draw_voxel with neither the early return nor the skip of faces that
\* have a rejected vertex
draw_voxel_ignoring_rejected(voxel_vertices_2d, color) ==
    LET faces == get_voxel_faces
        priority_faces == <<faces[2], faces[4], faces[6]>>
        FaceCalls(face_indices) ==
            LET face_verts == [k \in 1..4 |-> voxel_vertices_2d[face_indices[k]]]
            IN  <<FillPoly(Points2d(face_verts), color), Polylines(Points2d(face_verts))>>
        calls == FaceCalls(priority_faces[1]) \o FaceCalls(priority_faces[2])
                 \o FaceCalls(priority_faces[3])
    IN  [calls |-> calls, drawn |-> TRUE]

\* draw_voxel drawing faces[0], faces[2], faces[4] (back, bottom, left)
draw_voxel_back_faces(voxel_vertices_2d, color) ==
    LET valid_vertices == {i \in 1..Len(voxel_vertices_2d) : voxel_vertices_2d[i] # None}
        faces == get_voxel_faces
        priority_faces == <<faces[1], faces[3], faces[5]>>
        FaceCalls(face_indices) ==
            LET face_verts == [k \in 1..4 |-> voxel_vertices_2d[face_indices[k]]]
            IN  IF \E k \in 1..4 : face_verts[k] = None THEN <<>>
                ELSE <<FillPoly(Points2d(face_verts), color), Polylines(Points2d(face_verts))>>
        calls == FaceCalls(priority_faces[1]) \o FaceCalls(priority_faces[2])
                 \o FaceCalls(priority_faces[3])
    IN  IF Cardinality(valid_vertices) < 4 THEN [calls |-> <<>>, drawn |-> FALSE]
        ELSE [calls |-> calls, drawn |-> calls # <<>>]

\* draw_voxel returning True whenever it got past the early return
draw_voxel_true_past_return(voxel_vertices_2d, color) ==
    LET valid_vertices == {i \in 1..Len(voxel_vertices_2d) : voxel_vertices_2d[i] # None}
        faces == get_voxel_faces
        priority_faces == <<faces[2], faces[4], faces[6]>>
        FaceCalls(face_indices) ==
            LET face_verts == [k \in 1..4 |-> voxel_vertices_2d[face_indices[k]]]
            IN  IF \E k \in 1..4 : face_verts[k] = None THEN <<>>
                ELSE <<FillPoly(Points2d(face_verts), color), Polylines(Points2d(face_verts))>>
        calls == FaceCalls(priority_faces[1]) \o FaceCalls(priority_faces[2])
                 \o FaceCalls(priority_faces[3])
    IN  IF Cardinality(valid_vertices) < 4 THEN [calls |-> <<>>, drawn |-> FALSE]
        ELSE [calls |-> calls, drawn |-> TRUE]

\* draw_voxel(frame, voxel_vertices_2d, color, zbuffer=None): the calls it
\* makes on frame, in order, and its return value
draw_voxel(voxel_vertices_2d, color) ==
    LET valid_vertices == {i \in 1..Len(voxel_vertices_2d) : voxel_vertices_2d[i] # None}
        faces == get_voxel_faces
        priority_faces == <<faces[2], faces[4], faces[6]>>
        FaceCalls(face_indices) ==
            LET face_verts == [k \in 1..4 |-> voxel_vertices_2d[face_indices[k]]]
            IN  IF \E k \in 1..4 : face_verts[k] = None THEN <<>>
                ELSE <<FillPoly(Points2d(face_verts), color), Polylines(Points2d(face_verts))>>
        calls == FaceCalls(priority_faces[1]) \o FaceCalls(priority_faces[2])
                 \o FaceCalls(priority_faces[3])
    IN  IF Cardinality(valid_vertices) < 4 THEN [calls |-> <<>>, drawn |-> FALSE]
        ELSE [calls |-> calls, drawn |-> calls # <<>>]

\* cv2 frame size of the capture
FrameSize == <<1280, 720>>

\* step 2 of the pass: (transformed centre, color, original position)
TransformedForSort(raw_voxels, object_transform) ==
    [i \in 1..Len(raw_voxels) |->
        <<Xyz(transform_point(object_transform, ToF(raw_voxels[i][1]))),
          raw_voxels[i][2], raw_voxels[i][1]>>]

\* step 3: transformed_voxels_for_sort.sort(key=get_dist_sq, reverse=True)
SortForDraw(packs, cam) ==
    sorted_reverse(packs, [i \in 1..Len(packs) |-> distance_squared(packs[i][1], cam.position)])

\* vertices_2d for the local vertices from the k-th on: each vertex is put
\* in world space by the object transform and projected
RECURSIVE ProjectVertices(_, _, _, _)
ProjectVertices(vertices_local, object_transform, cam, k) ==
    IF k > Len(vertices_local) THEN <<>>
    ELSE <<project_3d_to_2d(Xyz(transform_point(object_transform, vertices_local[k])),
                            cam, FrameSize[1], FrameSize[2])>>
         \o ProjectVertices(vertices_local, object_transform, cam, k + 1)

\* the body of the loop for one voxel up to the draw_voxel call
RenderVoxel(v_pack, object_transform, cam) ==
    [pos |-> v_pack[3], color |-> v_pack[2], t_pos |-> v_pack[1],
     vertices_2d |-> ProjectVertices(get_voxel_cube_vertices(ToF(v_pack[3]), F1),
                                     object_transform, cam, 1)]

\* valid_count of a visited voxel
ValidCount(visit) == Cardinality({k \in 1..8 : visit.vertices_2d[k] # None})

\* the draw calls of the visits from the i-th on, in order, each with the
\* index of its visit
RECURSIVE FrameCalls(_, _)
FrameCalls(visits, i) ==
    IF i > Len(visits) THEN <<>>
    ELSE LET calls == draw_voxel(visits[i].vertices_2d, visits[i].color).calls
         IN  [k \in 1..Len(calls) |-> [voxel |-> i, call |-> calls[k]]]
             \o FrameCalls(visits, i + 1)

\* the loop over the sorted packs from the i-th on: one visit per voxel
RECURSIVE RenderLoop(_, _, _, _)
RenderLoop(packs, object_transform, cam, i) ==
    IF i > Len(packs) THEN <<>>
    ELSE <<RenderVoxel(packs[i], object_transform, cam)>>
         \o RenderLoop(packs, object_transform, cam, i + 1)

\* VoxelGrid(create_sample=...) scenes seen by the cameras below
VoxelSites == {<<0, 0, 0>>, <<0, 0, -4>>, <<0, 0, -2>>}
RenderCameras ==
    {Camera3D(<<F0, F0, F(15)>>, <<<<0, 0>>, <<0, 0>>, <<0, 0>>>>, 60, Rat(1, 10), F(100)),
     Camera3D(<<F0, F0, F1>>, <<<<0, 0>>, <<0, 0>>, <<0, 0>>>>, 90, Rat(1, 10), F(100)),
     Camera3D(<<F0, F0, F1>>, <<<<0, 0>>, <<2, 0>>, <<0, 0>>>>, 90, Rat(1, 10), F(100))}

RenderInit ==
    /\ GridInit
    /\ camera \in RenderCameras
    /\ projected = NoProjection
    /\ looked_at = None
    /\ rendered = FALSE /\ draw_order = <<>> /\ frame = <<>>
    /\ voxels_drawn = 0 /\ voxels_clipped = 0
    /\ sorted_pack = None

\* voxel_grid.set_voxel(pos, color), as the editor's place operation does
SetVoxel ==
    \E pos \in VoxelSites, color \in {"red"} :
        /\ Len(grid) < MaxVoxels
        /\ grid' = set_voxel(grid, pos, color)
        /\ NewFrame
        /\ UNCHANGED <<transform, cursor_pos, raw_point, ops, call, notGrid>>

\* sort_voxels_by_depth(list(voxel_grid.get_all_voxels()), camera)
SortVoxelsByDepth ==
    /\ sorted_pack = None
    /\ sorted_pack' = sort_voxels_by_depth(grid, camera)
    /\ UNCHANGED <<rendered, draw_order, frame, voxels_drawn, voxels_clipped,
                   matVars, gridVars, camVars, zbVars, uiVars>>

\* the pass with the transformed centres, rounded, written back as the keys
\* of the voxel map
SceneAfterPass_moving_keys(voxels, object_transform, cam) ==
    [voxels |-> [i \in 1..Len(voxels) |->
                    <<RoundPoint(Xyz(transform_point(object_transform, ToF(voxels[i][1])))),
                      voxels[i][2]>>],
     transform |-> object_transform, camera |-> cam]

\* the voxel map, the object transform and the camera as the pass leaves
\* them: raw_voxels is a copy (list(...)), the sort is applied to the new
\* list transformed_voxels_for_sort, and transform_point, project_3d_to_2d
\* and draw_voxel only read their arguments
SceneAfterPass(voxels, object_transform, cam) ==
    [voxels |-> voxels, transform |-> object_transform, camera |-> cam]

\* "Render 3D Voxels" of one loop iteration
RenderPass ==
    /\ ~rendered
    /\ LET raw_voxels == grid
           transformed_voxels_for_sort ==
               SortForDraw(TransformedForSort(raw_voxels, transform), camera)
       IN  draw_order' = RenderLoop(transformed_voxels_for_sort, transform, camera, 1)
    /\ frame' = FrameCalls(draw_order', 1)
    /\ voxels_clipped' = Cardinality({i \in DOMAIN draw_order' : ValidCount(draw_order'[i]) = 0})
    /\ voxels_drawn' = Cardinality({i \in DOMAIN draw_order' :
                                       draw_voxel(draw_order'[i].vertices_2d,
                                                  draw_order'[i].color).drawn})
    /\ rendered' = TRUE
    /\ grid' = SceneAfterPass(grid, transform, camera).voxels
    /\ transform' = SceneAfterPass(grid, transform, camera).transform
    /\ camera' = SceneAfterPass(grid, transform, camera).camera
    /\ UNCHANGED <<sorted_pack, matVars, cursor_pos, raw_point, ops, call, projected,
                   looked_at, zbVars, uiVars>>

\* the object is turned between frames
SceneOp == Len(ops) < MaxSceneOps /\ Rotate

RenderNext == SetVoxel \/ SceneOp \/ SortVoxelsByDepth \/ RenderPass

(***************************************************************************)
(* Specifications.                                                         *)
(***************************************************************************)
(***************************************************************************)
(* ZBuffer (src/render/zbuffer.py): a height x width array of float32.     *)
(***************************************************************************)
\* np.inf
Infinity == <<1, 0>>

RECURSIVE Pow2(_)
Pow2(n) == IF n = 0 THEN 1 ELSE 2 * Pow2(n - 1)

\* the float32 nearest to a (24-bit significand, ties to even), which is
\* what an assignment into the array stores; |a| < 2^24
Float32(a) ==
    IF a = Infinity \/ a[1] = 0 THEN a
    ELSE LET mag == FAbs(a)
             k == CHOOSE j \in 0..40 : /\ mag[1] * Pow2(j) >= Pow2(23) * mag[2]
                                       /\ mag[1] * Pow2(j) < Pow2(24) * mag[2]
             significand == PyRound(<<mag[1] * Pow2(k), mag[2]>>)
         IN  Rat(IF a[1] < 0 THEN -significand ELSE significand, Pow2(k))

\* a < b for two float32 values (denominators are powers of two)
Float32Lt(a, b) ==
    IF b = Infinity THEN a # Infinity
    ELSE IF a = Infinity THEN FALSE
    ELSE IF a[2] <= b[2] THEN a[1] * (b[2] \div a[2]) < b[1]
    ELSE a[1] < b[1] * (a[2] \div b[2])

\* "depth < self.buffer[y, x]" for a Python float and a float32 element:
\* NumPy 1.x promotes both to float64, NumPy 2 casts the Python float to
\* float32 first
DepthLess(depth, stored, promotion) ==
    IF promotion = "legacy"
    THEN IF stored = Infinity THEN depth # Infinity ELSE FLt(depth, stored)
    ELSE Float32Lt(Float32(depth), stored)

\* clear(): np.full((height, width), np.inf, dtype=np.float32)
clear(self) ==
    [self EXCEPT !.buffer = [p \in (0..(self.height - 1)) \X (0..(self.width - 1))
                                 |-> Infinity]]

ZBuffer(width, height) == clear([width |-> width, height |-> height, buffer |-> <<>>])

\* test_and_set(x, y, depth): the buffer afterwards and the value returned
test_and_set(self, x, y, depth, promotion) ==
    IF x < 0 \/ x >= self.width \/ y < 0 \/ y >= self.height
    THEN [zb |-> self, result |-> FALSE]
    ELSE IF DepthLess(depth, self.buffer[<<y, x>>], promotion)
    THEN [zb |-> [self EXCEPT !.buffer[<<y, x>>] = Float32(depth)], result |-> TRUE]
    ELSE [zb |-> self, result |-> FALSE]

\* ZBuffer(2, 1) on either NumPy
ZbInit ==
    /\ zbuffer = ZBuffer(2, 1)
    /\ zb_calls = <<>>
    /\ np_promotion \in {"legacy", "weak"}

\* no depth test in use (main passes zbuffer=None)
ZbIdle ==
    /\ zbuffer = None /\ zb_calls = <<>> /\ np_promotion = "weak"

\* pixels inside and outside the buffer; depths 0.1 and 0.7 are not float32
\* values, 0.5 is
TestAndSet ==
    \E x \in -1..2, y \in 0..1, depth \in {Rat(1, 10), Rat(7, 10), Rat(1, 2)} :
        /\ Len(zb_calls) < MaxSubmits
        /\ y = 1 => x = 0
        /\ LET r == test_and_set(zbuffer, x, y, depth, np_promotion)
           IN  /\ zbuffer' = r.zb
               /\ zb_calls' = Append(zb_calls, [x |-> x, y |-> y, depth |-> depth,
                                                result |-> r.result])
        /\ UNCHANGED <<np_promotion, matVars, gridVars, camVars, renderVars, uiVars>>

Clear ==
    /\ zb_calls # <<>>
    /\ zbuffer' = clear(zbuffer)
    /\ zb_calls' = <<>>
    /\ UNCHANGED <<np_promotion, matVars, gridVars, camVars, renderVars, uiVars>>

ZbNext == TestAndSet \/ Clear

(***************************************************************************)
(* GestureStateMachine (src/gestures/state_machine.py).                    *)
(***************************************************************************)
\* three of the names recognize_single_hand returns
Gestures == {"NONE", "pointer", "pinch"}

GestureStateMachine(stability_frames) ==
    [stability_frames |-> stability_frames,
     current_gesture |-> "NONE",
     candidate_gesture |-> "NONE",
     candidate_count |-> 0]

\* a differing detection that adds to the count of the previous candidate
update_without_restart(self, new_gesture) ==
    IF new_gesture = self.current_gesture
    THEN [self EXCEPT !.candidate_gesture = new_gesture, !.candidate_count = 0]
    ELSE LET count == self.candidate_count + 1
         IN  IF count >= self.stability_frames
             THEN [self EXCEPT !.current_gesture = new_gesture,
                               !.candidate_gesture = new_gesture,
                               !.candidate_count = 0]
             ELSE [self EXCEPT !.candidate_gesture = new_gesture,
                               !.candidate_count = count]

\* the object after update(new_gesture); the call returns its current_gesture
update(self, new_gesture) ==
    IF new_gesture = self.current_gesture
    THEN [self EXCEPT !.candidate_gesture = new_gesture, !.candidate_count = 0]
    ELSE IF new_gesture = self.candidate_gesture
    THEN LET count == self.candidate_count + 1
         IN  IF count >= self.stability_frames
             THEN [self EXCEPT !.current_gesture = self.candidate_gesture,
                               !.candidate_count = 0]
             ELSE [self EXCEPT !.candidate_count = count]
    ELSE [self EXCEPT !.candidate_gesture = new_gesture, !.candidate_count = 1]

reset(self) ==
    [self EXCEPT !.current_gesture = "NONE", !.candidate_gesture = "NONE",
                 !.candidate_count = 0]

GestureInit ==
    /\ sm \in {GestureStateMachine(n) : n \in 1..MaxStability}
    /\ updates = <<>>

\* main: stable_gesture = state_machines[i].update(gesture)
Update ==
    \E gesture \in Gestures :
        /\ Len(updates) < MaxUpdates
        /\ sm' = update(sm, gesture)
        /\ updates' = Append(updates, [detected |-> gesture,
                                       returned |-> update(sm, gesture).current_gesture])
        /\ UNCHANGED <<matVars, gridVars, camVars, renderVars, zbVars, toolVars, editVars>>

Reset ==
    /\ updates # <<>>
    /\ sm' = reset(sm)
    /\ updates' = <<>>
    /\ UNCHANGED <<matVars, gridVars, camVars, renderVars, zbVars, toolVars, editVars>>

GestureNext == Update \/ Reset

(***************************************************************************)
(* ToolManager (src/tools/tool_manager.py) on the voxel map of the grid.   *)
(***************************************************************************)
max_history == 50
action_cooldown == Rat(3, 20)

\* ToolManager.colors, by the names the source gives them
Palette == <<"red", "green", "blue", "yellow", "magenta", "cyan", "orange", "purple">>

\* dict.get(pos) is not None
HasVoxel(self, pos) == \E i \in DOMAIN self : self[i][1] = pos

\* dict.get(pos)
get_voxel(self, pos) ==
    IF \E i \in DOMAIN self : self[i][1] = pos
    THEN self[CHOOSE i \in DOMAIN self : self[i][1] = pos][2]
    ELSE None

\* del self.voxel_grid.grid[pos], guarded by "pos in grid" at every call site
del_voxel(self, pos) ==
    IF \E i \in DOMAIN self : self[i][1] = pos
    THEN LET k == CHOOSE i \in DOMAIN self : self[i][1] = pos
         IN  [i \in 1..(Len(self) - 1) |-> IF i < k THEN self[i] ELSE self[i + 1]]
    ELSE self

ToolAction(type, data, inverse_data) ==
    [type |-> type, data |-> data, inverse_data |-> inverse_data]

ToolManager ==
    [active_tool |-> "DRAW",
     undo_stack |-> <<>>,
     redo_stack |-> <<>>,
     max_history |-> max_history,
     selected_color_index |-> 0,
     is_interacting |-> FALSE]

set_tool(self, tool_name) == [self EXCEPT !.active_tool = tool_name]

get_current_color(self) == Palette[self.selected_color_index + 1]

\* list.pop(0) on a list that has just been appended to
PopFirst(stack) == SubSeq(stack, 2, Len(stack))
\* list.pop() on a non-empty list: the remaining list
PopLast(stack) == SubSeq(stack, 1, Len(stack) - 1)

\* a new action that leaves the redo history in place
push_action_keeping_redo(self, action) ==
    LET appended == Append(self.undo_stack, action)
    IN  [self EXCEPT !.undo_stack = IF Len(appended) > self.max_history
                                    THEN PopFirst(appended) ELSE appended]

\* the newest action dropped at the bound instead of the oldest
push_action_dropping_newest(self, action) ==
    LET appended == Append(self.undo_stack, action)
    IN  [self EXCEPT !.undo_stack = IF Len(appended) > self.max_history
                                    THEN PopLast(appended) ELSE appended,
                     !.redo_stack = <<>>]

push_action(self, action) ==
    LET appended == Append(self.undo_stack, action)
    IN  [self EXCEPT !.undo_stack = IF Len(appended) > self.max_history
                                    THEN PopFirst(appended) ELSE appended,
                     !.redo_stack = <<>>]

\* the result of a ToolManager call: the object, the voxel map, the value
\* returned, and whether last_action_time was set to now
Outcome(self, voxels, result, stamped) ==
    [tm |-> self, voxels |-> voxels, result |-> result, stamped |-> stamped]

\* an undo of an erase that puts back the colour selected now
undo_with_current_color(self, voxels) ==
    IF self.undo_stack = <<>> THEN Outcome(self, voxels, FALSE, FALSE)
    ELSE LET action == self.undo_stack[Len(self.undo_stack)]
             popped == [self EXCEPT !.undo_stack = PopLast(self.undo_stack),
                                    !.redo_stack = Append(self.redo_stack, action)]
         IN  IF action.type = "PLACE_VOXEL"
             THEN Outcome(popped, del_voxel(voxels, action.data.pos), TRUE, FALSE)
             ELSE IF action.type = "ERASE_VOXEL"
             THEN Outcome(popped,
                          set_voxel(voxels, action.inverse_data.pos,
                                    IF action.inverse_data.color = get_current_color(self)
                                    THEN Palette[self.selected_color_index + 2]
                                    ELSE get_current_color(self)),
                          TRUE, FALSE)
             ELSE Outcome(popped, voxels, FALSE, FALSE)

undo(self, voxels) ==
    IF self.undo_stack = <<>> THEN Outcome(self, voxels, FALSE, FALSE)
    ELSE LET action == self.undo_stack[Len(self.undo_stack)]
             popped == [self EXCEPT !.undo_stack = PopLast(self.undo_stack),
                                    !.redo_stack = Append(self.redo_stack, action)]
         IN  IF action.type = "PLACE_VOXEL"
             THEN Outcome(popped, del_voxel(voxels, action.data.pos), TRUE, FALSE)
             ELSE IF action.type = "ERASE_VOXEL"
             THEN Outcome(popped,
                          set_voxel(voxels, action.inverse_data.pos,
                                    action.inverse_data.color),
                          TRUE, FALSE)
             ELSE Outcome(popped, voxels, FALSE, FALSE)

redo(self, voxels) ==
    IF self.redo_stack = <<>> THEN Outcome(self, voxels, FALSE, FALSE)
    ELSE LET action == self.redo_stack[Len(self.redo_stack)]
             popped == [self EXCEPT !.redo_stack = PopLast(self.redo_stack),
                                    !.undo_stack = Append(self.undo_stack, action)]
         IN  IF action.type = "PLACE_VOXEL"
             THEN Outcome(popped,
                          set_voxel(voxels, action.data.pos, action.data.color),
                          TRUE, FALSE)
             ELSE IF action.type = "ERASE_VOXEL"
             THEN Outcome(popped, del_voxel(voxels, action.data.pos), TRUE, FALSE)
             ELSE Outcome(popped, voxels, FALSE, FALSE)

\* use_tool(pos, gesture_is_active) called "since" seconds after the last
\* recorded action
use_tool(self, voxels, pos, gesture_is_active, since) ==
    IF FLt(since, action_cooldown) THEN Outcome(self, voxels, None, FALSE)
    ELSE IF ~gesture_is_active
    THEN Outcome([self EXCEPT !.is_interacting = FALSE], voxels, None, FALSE)
    ELSE LET active == [self EXCEPT !.is_interacting = TRUE]
             existing_color == get_voxel(voxels, pos)
         IN  IF active.active_tool = "DRAW" /\ ~HasVoxel(voxels, pos)
             THEN LET color == get_current_color(active)
                  IN  Outcome(push_action(active,
                                  ToolAction("PLACE_VOXEL",
                                             [pos |-> pos, color |-> color],
                                             [pos |-> pos])),
                              set_voxel(voxels, pos, color), "VOXEL_PLACED", TRUE)
             ELSE IF active.active_tool = "ERASE" /\ HasVoxel(voxels, pos)
             THEN Outcome(push_action(active,
                              ToolAction("ERASE_VOXEL",
                                         [pos |-> pos],
                                         [pos |-> pos, color |-> existing_color])),
                          del_voxel(voxels, pos), "VOXEL_ERASED", TRUE)
             ELSE IF /\ active.active_tool = "COLOR_PICK"
                     /\ HasVoxel(voxels, pos)
                     /\ \E i \in DOMAIN Palette : Palette[i] = existing_color
             THEN Outcome([active EXCEPT
                              !.selected_color_index =
                                  (CHOOSE i \in DOMAIN Palette :
                                      Palette[i] = existing_color) - 1,
                              !.active_tool = "DRAW"],
                          voxels, "COLOR_PICKED", FALSE)
             ELSE Outcome(active, voxels, None, FALSE)

\* the site the tools are used on: the centre of the sample structure
ToolSites == {<<0, 0, 0>>}
\* the sample structure, with its centre empty or holding a green voxel
ToolGrids ==
    {g : g \in SampleGrids \ {<<>>}} \cup
    {set_voxel(g, <<0, 0, 0>>, "green") : g \in SampleGrids \ {<<>>}}
\* the tools that record actions
Tools == {"DRAW", "ERASE"}

ToolInit ==
    /\ grid \in ToolGrids
    /\ transform = identity
    /\ cursor_pos = <<0, 0, 0>>
    /\ raw_point = None
    /\ ops = <<>>
    /\ call = Call("init", "", "returned")
    /\ tm = ToolManager
    /\ since_action = action_cooldown

\* what no ToolManager call touches
notTool == <<transform, cursor_pos, raw_point, ops, call,
             matVars, camVars, zbVars, gestureVars, editVars>>

UseTool ==
    \E pos \in ToolSites, gesture_is_active \in BOOLEAN :
        LET outcome == use_tool(tm, grid, pos, gesture_is_active, since_action)
        IN  /\ tm' = outcome.tm
            /\ grid' = outcome.voxels
            /\ since_action' = IF outcome.stamped THEN F0 ELSE since_action
            /\ NewFrame
            /\ UNCHANGED notTool

Undo ==
    /\ tm' = undo(tm, grid).tm
    /\ grid' = undo(tm, grid).voxels
    /\ NewFrame
    /\ UNCHANGED <<since_action, notTool>>

Redo ==
    /\ tm' = redo(tm, grid).tm
    /\ grid' = redo(tm, grid).voxels
    /\ NewFrame
    /\ UNCHANGED <<since_action, notTool>>

SetTool ==
    \E tool_name \in Tools :
        /\ tool_name # tm.active_tool
        /\ tm' = set_tool(tm, tool_name)
        /\ UNCHANGED <<since_action, grid, renderVars, notTool>>

\* action_cooldown seconds pass
Wait ==
    /\ FLt(since_action, action_cooldown)
    /\ since_action' = action_cooldown
    /\ UNCHANGED <<tm, grid, renderVars, notTool>>

ToolNext == UseTool \/ Undo \/ Redo \/ SetTool \/ Wait

ToolIdle == tm = None /\ since_action = F0
EditIdle ==
    editor = None /\ since_placement = F0 /\ since_erase = F0 /\ placed = None

(***************************************************************************)
(* VoxelEditor.place_voxel / erase_voxel (src/world/voxel_editor.py).      *)
(***************************************************************************)
max_voxels == 100
placement_cooldown == Rat(3, 10)
erase_cooldown == Rat(2, 10)

\* the placement and erase fields of a new VoxelEditor
VoxelEditor(current_color_index) ==
    [max_voxels |-> max_voxels,
     last_placed_pos |-> None,
     last_erased_pos |-> None,
     current_color_index |-> current_color_index]

\* the result of an editor call: the object, the voxel map and the value returned
Edited(self, voxels, result) == [editor |-> self, voxels |-> voxels, result |-> result]

\* a placement that does not look at what the position holds
place_voxel_overwriting(self, voxels, position, since) ==
    IF FLt(since, placement_cooldown) THEN Edited(self, voxels, FALSE)
    ELSE IF position = self.last_placed_pos THEN Edited(self, voxels, FALSE)
    ELSE IF Len(voxels) >= self.max_voxels THEN Edited(self, voxels, FALSE)
    ELSE Edited([self EXCEPT !.last_placed_pos = position],
                set_voxel(voxels, position, Palette[self.current_color_index + 1]),
                TRUE)

\* place_voxel(position) called "since" seconds after the last placement
place_voxel(self, voxels, position, since) ==
    IF FLt(since, placement_cooldown) THEN Edited(self, voxels, FALSE)
    ELSE IF position = self.last_placed_pos THEN Edited(self, voxels, FALSE)
    ELSE IF Len(voxels) >= self.max_voxels THEN Edited(self, voxels, FALSE)
    ELSE IF HasVoxel(voxels, position) THEN Edited(self, voxels, FALSE)
    ELSE Edited([self EXCEPT !.last_placed_pos = position],
                set_voxel(voxels, position, Palette[self.current_color_index + 1]),
                TRUE)

\* erase_voxel(position) called "since" seconds after the last erase
erase_voxel(self, voxels, position, since) ==
    IF FLt(since, erase_cooldown) THEN Edited(self, voxels, FALSE)
    ELSE IF position = self.last_erased_pos THEN Edited(self, voxels, FALSE)
    ELSE IF HasVoxel(voxels, position)
    THEN Edited([self EXCEPT !.last_erased_pos = position],
                del_voxel(voxels, position), TRUE)
    ELSE Edited(self, voxels, FALSE)

\* a grid grown to n voxels along the row y = 0, z = 5
RECURSIVE Grown(_, _)
Grown(voxels, n) ==
    IF Len(voxels) >= n THEN voxels
    ELSE Grown(set_voxel(voxels, <<Len(voxels), 0, 5>>, "blue"), n)

\* the sample structure, as it is and grown to one voxel below the limit
EditGrids ==
    {g : g \in SampleGrids \ {<<>>}} \cup
    {Grown(g, max_voxels - 1) : g \in SampleGrids \ {<<>>}}

\* empty sites next to the sample structure, and one of its voxels
EditSites == {<<x, 0, 0>> : x \in -1..(MaxRow - 1)}

\* the time that passes between two calls
TickSeconds == Rat(1, 10)
Elapsed(since, cap) ==
    IF FLt(FAdd(since, TickSeconds), cap) THEN FAdd(since, TickSeconds) ELSE cap

EditInit ==
    /\ grid \in EditGrids
    /\ transform = identity
    /\ cursor_pos = <<0, 0, 0>>
    /\ raw_point = None
    /\ ops = <<>>
    /\ call = Call("init", "", "returned")
    /\ editor \in {VoxelEditor(i) : i \in 0..1}
    /\ since_placement = placement_cooldown
    /\ since_erase = erase_cooldown
    /\ placed = None

\* what no editor call touches
notEdit == <<transform, cursor_pos, raw_point, ops, call,
             matVars, camVars, zbVars, gestureVars, toolVars>>

PlaceVoxel ==
    \E position \in EditSites :
        LET outcome == place_voxel(editor, grid, position, since_placement)
        IN  /\ editor' = outcome.editor
            /\ grid' = outcome.voxels
            /\ since_placement' = IF outcome.result THEN F0 ELSE since_placement
            /\ placed' = [position |-> position, result |-> outcome.result]
            /\ NewFrame
            /\ UNCHANGED <<since_erase, notEdit>>

EraseVoxel ==
    \E position \in EditSites :
        LET outcome == erase_voxel(editor, grid, position, since_erase)
        IN  /\ editor' = outcome.editor
            /\ grid' = outcome.voxels
            /\ since_erase' = IF outcome.result THEN F0 ELSE since_erase
            /\ placed' = None
            /\ NewFrame
            /\ UNCHANGED <<since_placement, notEdit>>

Tick ==
    /\ FLt(since_placement, placement_cooldown) \/ FLt(since_erase, erase_cooldown)
    /\ since_placement' = Elapsed(since_placement, placement_cooldown)
    /\ since_erase' = Elapsed(since_erase, erase_cooldown)
    /\ placed' = None
    /\ UNCHANGED <<editor, grid, renderVars, notEdit>>

EditNext == PlaceVoxel \/ EraseVoxel \/ Tick

GestureIdle == sm = None /\ updates = <<>>
UiIdle == GestureIdle /\ ToolIdle /\ EditIdle

GridIdle ==
    /\ grid = <<>> /\ transform = identity /\ cursor_pos = <<0, 0, 0>>
    /\ raw_point = None /\ ops = <<>> /\ call = Call("init", "", "returned")

RenderIdle ==
    /\ rendered = FALSE /\ draw_order = <<>> /\ frame = <<>>
    /\ voxels_drawn = 0 /\ voxels_clipped = 0
    /\ sorted_pack = None

MatSpecInit == MatInit /\ GridIdle /\ CamIdle /\ RenderIdle /\ ZbIdle /\ UiIdle
SpecMatrix == MatSpecInit /\ [][MatNext]_vars

GridSpecInit == GridInit /\ MatIdle /\ CamIdle /\ RenderIdle /\ ZbIdle /\ UiIdle
SpecGrid == GridSpecInit /\ [][GridNext]_vars

ProjSpecInit == CamInit /\ MatIdle /\ GridIdle /\ RenderIdle /\ ZbIdle /\ UiIdle
SpecProject == ProjSpecInit /\ [][ProjNext]_vars

RenderSpecInit == RenderInit /\ MatIdle /\ ZbIdle /\ UiIdle
SpecRender == RenderSpecInit /\ [][RenderNext]_vars

ZbSpecInit == ZbInit /\ MatIdle /\ GridIdle /\ CamIdle /\ RenderIdle /\ UiIdle
SpecZBuffer == ZbSpecInit /\ [][ZbNext]_vars

GestureSpecInit ==
    /\ GestureInit /\ MatIdle /\ GridIdle /\ CamIdle /\ RenderIdle /\ ZbIdle
    /\ ToolIdle /\ EditIdle
SpecGesture == GestureSpecInit /\ [][GestureNext]_vars

ToolSpecInit ==
    /\ ToolInit /\ MatIdle /\ CamIdle /\ RenderIdle /\ ZbIdle
    /\ GestureIdle /\ EditIdle
SpecTool == ToolSpecInit /\ [][ToolNext]_vars

EditSpecInit ==
    /\ EditInit /\ MatIdle /\ CamIdle /\ RenderIdle /\ ZbIdle
    /\ GestureIdle /\ ToolIdle
SpecEdit == EditSpecInit /\ [][EditNext]_vars

(***************************************************************************)
(* Properties.                                                             *)
(***************************************************************************)
\* the origin and the three unit points: an affine map is determined by its
\* values on them
Frame == {Origin, <<F1, F0, F0>>, <<F0, F1, F0>>, <<F0, F0, F1>>}

\* the elementary matrix an applied operation builds
OpMatrix(op) ==
    CASE op.kind = "translate" -> from_translation(op.v[1], op.v[2], op.v[3])
      [] op.kind = "scale" -> from_scale(op.factor, op.factor, op.factor)
      [] op.kind = "rotate" /\ op.axis = "x" -> from_rotation_x(op.angle)
      [] op.kind = "rotate" /\ op.axis = "y" -> from_rotation_y(op.angle)
      [] op.kind = "rotate" /\ op.axis = "z" -> from_rotation_z(op.angle)

\* Opn . ... . Op2 . Op1 . I
RECURSIVE ComposeOps(_)
ComposeOps(s) ==
    IF s = <<>> THEN identity
    ELSE multiply(OpMatrix(s[Len(s)]), ComposeOps(SubSeq(s, 1, Len(s) - 1)))

\* Op1 applied to the point first, Opn last
RECURSIVE ApplyOps(_, _)
ApplyOps(s, p) ==
    IF s = <<>> THEN p
    ELSE ApplyOps(Tail(s), Xyz(transform_point(OpMatrix(Head(s)), p)))

IsTranslation(m) == m = from_translation(m[1][4], m[2][4], m[3][4])
IsUniformScale(m) == m = from_scale(m[1][1], m[1][1], m[1][1])
ZeroScaled == \E i \in DOMAIN ops : ops[i].kind = "scale" /\ ops[i].factor = F0

\* C2: after translate / rotate / scale calls Op1..Opn on a fresh grid the
\* stored transform is Opn . ... . Op1 . I, and transforming a point applies
\* Op1 first and Opn last.
C2_TransformIsLeftProduct ==
    /\ transform = ComposeOps(ops)
    /\ \A p \in Frame : Xyz(transform_point(transform, p)) = ApplyOps(ops, p)

\* translate then rotate (as test_voxel_grid_transform), where the order matters
C2_Witness ==
    /\ Len(ops) = 2 /\ ops[1].kind = "translate" /\ ops[2].kind = "rotate"
    /\ transform = multiply(OpMatrix(ops[2]), OpMatrix(ops[1]))
    /\ transform # multiply(OpMatrix(ops[1]), OpMatrix(ops[2]))

\* C3: A.multiply(B).transform_point(p) is A applied to B applied to p, for the
\* affine A, B of the test; T(10,20,30).multiply(S(2,2,2)) maps (1,1,1) to
\* (12,22,32).
C3_MultiplyAppliesOtherFirst ==
    m_stage \in {"transformed", "inverted", "restored"} =>
        /\ m_pt = transform_point(m_a, Xyz(transform_point(m_b, m_p)))
        /\ (/\ m_a = from_translation(F(10), F(20), F(30))
            /\ m_b = from_scale(F(2), F(2), F(2))
            /\ m_p = <<F1, F1, F1>>) => m_pt = <<F(12), F(22), F(32), F1>>

C3_Witness ==
    /\ m_stage = "transformed"
    /\ m_a = from_translation(F(10), F(20), F(30))
    /\ m_b = from_scale(F(2), F(2), F(2))
    /\ m_p = <<F1, F1, F1>>
    /\ m_pt = <<F(12), F(22), F(32), F1>>
    /\ m_pt # transform_point(m_b, Xyz(transform_point(m_a, m_p)))

\* C7: for a translation T, alone or composed as T.multiply(S) with a uniform
\* scale s # 0, inverse() is a matrix and inverse().transform_point(xyz of
\* transform_point(p)) is p.
C7_InverseRoundTrip ==
    (IsTranslation(m_a) /\ IsUniformScale(m_b) /\ m_b[1][1] # F0) =>
        /\ m_stage \in {"inverted", "restored"} => m_inv # None
        /\ m_stage = "restored" => m_orig = <<m_p[1], m_p[2], m_p[3], F1>>

C7_Witness ==
    /\ m_stage = "restored"
    /\ IsTranslation(m_a) /\ m_a # identity
    /\ IsUniformScale(m_b) /\ m_b[1][1] \notin {F0, F1}
    /\ m_p # Origin
    /\ Xyz(m_pt) # m_p
    /\ Xyz(m_orig) = m_p

C9_SingularPickSkipped ==
    /\ [](ZeroScaled =>
            /\ inverse(transform) = None
            /\ call.name = "hand_to_world" =>
                  /\ call.outcome = "returned"
                  /\ cursor_pos = RoundPoint(raw_point))
    /\ [][call'.name = "hand_to_world" => (grid' = grid /\ transform' = transform)]_vars

C9_Witness ==
    /\ ZeroScaled
    /\ call.name = "hand_to_world"
    /\ grid # <<>>
    /\ raw_point # Origin
    /\ cursor_pos = RoundPoint(raw_point)
    /\ cursor_pos # <<0, 0, 0>>

\* C10 (as claimed): rotate with an axis identifier other than x, y, z
\* (case-insensitive) fails loudly instead of returning normally.
C10_InvalidAxisFailsLoudly ==
    (call.name = "rotate" /\ Lower(call.axis) \notin {"x", "y", "z"})
        => call.outcome = "raised"


(***************************************************************************)
(* Projection (SpecProject).                                               *)
(***************************************************************************)
\* the recorded call was made on a point at or behind the camera
BehindCamera == projected.done /\ FLe(F0, ViewZ(projected.point, camera))

\* C1: project_3d_to_2d returns None for every point whose view-space Z is
\* >= 0, whatever the camera's position and rotation: no screen point is
\* returned for a point at or behind the camera.
C1_BehindCameraIsNone == BehindCamera => projected.result = None

\* a point strictly behind a moved, rotated camera that the rest of the
\* pipeline would have put on the screen
C1_Witness ==
    /\ BehindCamera
    /\ FLt(F0, ViewZ(projected.point, camera))
    /\ camera.rotation # <<<<0, 0>>, <<0, 0>>, <<0, 0>>>>
    /\ project_3d_to_2d_no_cull(projected.point, camera, projected.size[1],
                                projected.size[2]) # None
    /\ projected.result = None

\* C6: every non-None result (screen_x, screen_y, depth) of project_3d_to_2d
\* has depth in [0, 1], also for points in front of the camera that are
\* nearer than the near plane or farther than the far plane.
C6_DepthInUnitRange ==
    (projected.done /\ projected.result # None)
        => (FLe(F0, projected.result[3]) /\ FLe(projected.result[3], F1))

(***************************************************************************)
(* Render pass (SpecRender).                                               *)
(***************************************************************************)
\* out lists exactly the grid's (position, color) entries, once each (the
\* grid holds one entry per position)
PermutationOfGrid(out) ==
    /\ Len(out) = Len(grid)
    /\ {out[i] : i \in DOMAIN out} = {grid[i] : i \in DOMAIN grid}

\* squared camera distance of a voxel's centre: as stored, and as placed by
\* the object transform
LocalDistSq(pos) == distance_squared(ToF(pos), camera.position)
WorldDistSq(pos) ==
    distance_squared(Xyz(transform_point(transform, ToF(pos))), camera.position)

DrawnVoxels == [i \in DOMAIN draw_order |-> <<draw_order[i].pos, draw_order[i].color>>]

\* C4: the per-frame draw order is a permutation of the grid's voxels in
\* which the squared distance from the camera to the transformed voxel
\* centre never increases (farthest first), and sort_voxels_by_depth orders
\* the positions it is handed the same way: distances 1, 5, 3 come out as
\* 5, 3, 1.
C4_DrawOrderFarthestFirst ==
    /\ rendered =>
        /\ PermutationOfGrid(DrawnVoxels)
        /\ \A i, j \in DOMAIN draw_order :
               i < j => FLe(WorldDistSq(draw_order[j].pos), WorldDistSq(draw_order[i].pos))
    /\ sorted_pack # None =>
        /\ PermutationOfGrid(sorted_pack)
        /\ \A i, j \in DOMAIN sorted_pack :
               i < j => FLe(LocalDistSq(sorted_pack[j][1]), LocalDistSq(sorted_pack[i][1]))
        /\ [i \in DOMAIN grid |-> LocalDistSq(grid[i][1])] = <<F(1), F(25), F(9)>>
               => [i \in DOMAIN sorted_pack |-> LocalDistSq(sorted_pack[i][1])]
                      = <<F(25), F(9), F(1)>>

\* voxels stored at distances 1, 5, 3 sorted to 5, 3, 1 by both sorts, under
\* an object transform
C4_Witness ==
    /\ rendered /\ sorted_pack # None /\ ops # <<>>
    /\ [i \in DOMAIN grid |-> LocalDistSq(grid[i][1])] = <<F(1), F(25), F(9)>>
    /\ [i \in DOMAIN sorted_pack |-> LocalDistSq(sorted_pack[i][1])] = <<F(25), F(9), F(1)>>
    /\ [i \in DOMAIN draw_order |-> WorldDistSq(draw_order[i].pos)] = <<F(25), F(9), F(1)>>

\* the visits of the pass in which all 8 projections were None
Rejected == {i \in DOMAIN draw_order : \A k \in 1..8 : draw_order[i].vertices_2d[k] = None}

\* C5: in a render pass a voxel all 8 of whose vertices are rejected by
\* projection increments the clipped count, is not counted as drawn, and
\* causes no fill and no outline call: draw_voxel returns False before
\* drawing anything.
C5_RejectedVoxelClippedNotDrawn ==
    rendered =>
        /\ voxels_clipped >= Cardinality(Rejected)
        /\ voxels_drawn <= Len(draw_order) - Cardinality(Rejected)
        /\ \A i \in Rejected :
               /\ draw_voxel(draw_order[i].vertices_2d, draw_order[i].color)
                      = [calls |-> <<>>, drawn |-> FALSE]
               /\ \A c \in DOMAIN frame : frame[c].voxel # i

\* a pass over a scene with a fully rejected voxel and a drawn one
C5_Witness ==
    /\ rendered
    /\ Rejected # {}
    /\ \E i \in DOMAIN draw_order : \E c \in DOMAIN frame : frame[c].voxel = i
    /\ voxels_drawn >= 1
    /\ voxels_clipped = Cardinality(Rejected)
    /\ frame # <<>>

(***************************************************************************)
(* View matrix and camera placement (SpecProject).                         *)
(***************************************************************************)
\* the camera's world transform Translate(position) . from_rotation_xyz(rotation)
CameraWorld ==
    multiply(from_translation(camera.position[1], camera.position[2], camera.position[3]),
             from_rotation_xyz(camera.rotation[1], camera.rotation[2], camera.rotation[3]))

\* C11: for every camera position and rotation, view_matrix(position,
\* rotation) is the inverse of the camera's world transform
\* Translate(position) . from_rotation_xyz(rx, ry, rz): their product is the
\* identity, also when two or more of the angles are non-zero.
C11_ViewInvertsCameraWorld ==
    /\ multiply(get_view_matrix(camera), CameraWorld) = identity
    /\ multiply(CameraWorld, get_view_matrix(camera)) = identity

(***************************************************************************)
(* Accumulation operations in world space (SpecGrid).                      *)
(***************************************************************************)
WorldImage(m, p) == Xyz(transform_point(m, p))

\* a world point turned about a world axis through the world origin
TurnedAbout(axis, angle, w) ==
    LET c == Cos(angle)
        s == Sin(angle)
    IN  CASE axis = "x" -> <<w[1], FSub(FMul(c, w[2]), FMul(s, w[3])),
                             FAdd(FMul(s, w[2]), FMul(c, w[3]))>>
          [] axis = "y" -> <<FAdd(FMul(c, w[1]), FMul(s, w[3])), w[2],
                             FSub(FMul(c, w[3]), FMul(s, w[1]))>>
          [] axis = "z" -> <<FSub(FMul(c, w[1]), FMul(s, w[2])),
                             FAdd(FMul(s, w[1]), FMul(c, w[2])), w[3]>>

\* what the operation op does to a world point
MovedInWorld(op, w) ==
    CASE op.kind = "translate" ->
             <<FAdd(w[1], op.v[1]), FAdd(w[2], op.v[2]), FAdd(w[3], op.v[3])>>
      [] op.kind = "scale" ->
             <<FMul(op.factor, w[1]), FMul(op.factor, w[2]), FMul(op.factor, w[3])>>
      [] op.kind = "rotate" -> TurnedAbout(op.axis, op.angle, w)

\* C12: every accumulation operation acts in world space: after translate
\* the world image of a local point is its previous world image plus
\* (dx, dy, dz), after scale(f) it is the previous image times f, after
\* rotate(axis, a) it is the previous image turned about the world axis
\* through the world origin, whatever the transform already contains.
C12_OpsActInWorldSpace ==
    [][Len(ops') = Len(ops) + 1 =>
          \A p \in Frame :
              WorldImage(transform', p)
                  = MovedInWorld(ops'[Len(ops')], WorldImage(transform, p))]_vars

\* a translation applied to an object that was already rotated or scaled,
\* where moving along the object's own axes would land elsewhere
C12_Witness ==
    /\ Len(ops) = 2 /\ ops[1].kind \in {"rotate", "scale"} /\ ops[2].kind = "translate"
    /\ WorldImage(transform, Origin) = MovedInWorld(ops[2], Origin)
    /\ WorldImage(transform, Origin)
           # WorldImage(multiply(OpMatrix(ops[1]), OpMatrix(ops[2])), Origin)

(***************************************************************************)
(* Turning an object about one axis (SpecCycle): set_transform(M), then    *)
(* rotate(axis, a) repeatedly about the axis of the first turn.            *)
(***************************************************************************)
\* the transforms the caller starts from
CycleStarts ==
    {identity,
     multiply(from_translation(F(0), F(-2), F(1)), from_rotation_y(<<0, 1>>)),
     multiply(from_scale(F(2), F(2), F(2)),
              multiply(from_rotation_x(<<1, 0>>), from_translation(F(1), F(0), F(0))))}

\* pi/2, pi/2 + phi, pi/2 - phi
TurnAngles == {<<1, 0>>, <<1, 1>>, <<1, -1>>}
TurnAxes == {"x", "Y", "z"}

CycleInit ==
    /\ grid \in SampleGrids
    /\ transform = identity
    /\ cursor_pos = <<0, 0, 0>>
    /\ raw_point = None
    /\ ops = <<>>
    /\ call = Call("init", "", "returned")
    /\ m_a \in CycleStarts
    /\ m_b = identity /\ m_p = <<F0, F0, F0>>
    /\ m_c = None /\ m_pt = None /\ m_inv = None /\ m_orig = None
    /\ m_stage = "built"

\* VoxelGrid.set_transform(matrix)
SetTransform ==
    /\ call.name = "init"
    /\ transform' = m_a
    /\ call' = Call("set_transform", "", "returned")
    /\ raw_point' = None
    /\ NewFrame
    /\ UNCHANGED <<grid, cursor_pos, ops, notGrid>>

Turn ==
    \E axis \in TurnAxes, a \in TurnAngles :
        /\ call.name # "init"
        /\ Len(ops) < MaxTurns
        /\ ops # <<>> => ops[1].axis = Lower(axis)
        /\ transform' = rotate(transform, axis, a)
        /\ ops' = Append(ops, Op("rotate", Lower(axis), a, <<F0, F0, F0>>, F1))
        /\ call' = Call("rotate", axis, "returned")
        /\ raw_point' = None
        /\ NewFrame
        /\ UNCHANGED <<grid, cursor_pos, notGrid>>

CycleNext == SetTransform \/ Turn

CycleSpecInit == CycleInit /\ CamIdle /\ RenderIdle /\ ZbIdle /\ UiIdle
SpecCycle == CycleSpecInit /\ [][CycleNext]_vars

\* the sum of the angles of the turns made
RECURSIVE TurnedBy(_)
TurnedBy(n) ==
    IF n = 0 THEN <<0, 0>>
    ELSE <<TurnedBy(n - 1)[1] + ops[n].angle[1], TurnedBy(n - 1)[2] + ops[n].angle[2]>>

FullTurn == <<4, 0>>

\* C13: for each single axis and any starting transform M, rotate(axis, a)
\* applied repeatedly with angles that sum to 2 pi leaves the transform
\* equal to M.
C13_FullTurnRestoresTransform ==
    (call.name = "rotate" /\ TurnedBy(Len(ops)) = FullTurn) => transform = m_a

\* a full turn about Z of a translated and rotated object, made of turns that
\* are not all quarter turns
C13_Witness ==
    /\ call.name = "rotate" /\ TurnedBy(Len(ops)) = FullTurn
    /\ ops[1].axis = "z" /\ \E i \in DOMAIN ops : ops[i].angle[2] # 0
    /\ m_a # identity /\ transform = m_a
    /\ \A i \in 1..(Len(ops) - 1) : ComposeOps(SubSeq(ops, 1, i)) # identity

(***************************************************************************)
(* The identity as an operand of multiply (SpecMatrix).                    *)
(***************************************************************************)
SameEntries(m, n) == \A i \in 1..4 : \A j \in 1..4 : m[i][j] = n[i][j]

\* C14: Matrix4.identity().multiply(M) and M.multiply(Matrix4.identity())
\* both have exactly the 16 entries of M.
C14_IdentityIsNeutral ==
    m_stage # "built" =>
        /\ m_a = identity => SameEntries(m_c, m_b)
        /\ m_b = identity => SameEntries(m_c, m_a)

\* the identity multiplied onto a translation, whose fourth column is not zero
C14_Witness ==
    /\ m_stage = "composed"
    /\ m_a = identity /\ m_b # identity /\ IsTranslation(m_b)
    /\ SameEntries(m_c, m_b)

(***************************************************************************)
(* Screen coordinates of a projected point (SpecProject).                  *)
(***************************************************************************)
\* the clip-space image of the recorded point under projection . view
ClipOf(pr) ==
    transform_point(multiply(get_projection_matrix(camera, Rat(pr.size[1], pr.size[2])),
                             get_view_matrix(camera)), pr.point)
\* its normalised device coordinates (clip w # 0)
NdcOf(pr) == <<FDiv(ClipOf(pr)[1], ClipOf(pr)[4]), FDiv(ClipOf(pr)[2], ClipOf(pr)[4])>>
\* (x + 1) / 2 * width and (1 - y) / 2 * height
ScreenXOf(pr) == FMul(FDiv(FAdd(NdcOf(pr)[1], F1), F(2)), F(pr.size[1]))
ScreenYOf(pr) == FMul(FDiv(FSub(F1, NdcOf(pr)[2]), F(2)), F(pr.size[2]))

Accepted == projected.done /\ projected.result # None

\* s is v with its fractional part dropped (toward zero)
TruncatedTo(s, v) ==
    /\ s \in Int
    /\ FLe(F(Abs(s)), FAbs(v)) /\ FLt(FAbs(v), F(Abs(s) + 1))
    /\ s > 0 => FLt(F0, v)
    /\ s < 0 => FLt(v, F0)

FixedViewportCases ==
    /\ viewport_transform(<<F0, F0>>, 1920, 1080) = <<960, 540>>
    /\ \A size \in ScreenSizes \cup {<<1280, 720>>} :
           /\ viewport_transform(<<F(-1), F1>>, size[1], size[2]) = <<0, 0>>
           /\ viewport_transform(<<F1, F(-1)>>, size[1], size[2]) = size

\* C15 as stated: the screen coordinates project_3d_to_2d returns are
\* (x+1)/2 * width and (1-y)/2 * height for every accepted NDC point (x, y),
\* including those with negative screen coordinates.
C15_ScreenIsExactProduct ==
    Accepted =>
        /\ F(projected.result[1]) = ScreenXOf(projected)
        /\ F(projected.result[2]) = ScreenYOf(projected)

\* C15 (amended): NDC (0,0) maps to (960, 540) on 1920x1080, (-1,1) to (0,0)
\* and (1,-1) to (width, height); for every accepted NDC point the screen
\* coordinates returned are the integers int((x+1)/2 * width) and
\* int((1-y)/2 * height), the products truncated toward zero, also when they
\* are negative.
C15_ScreenIsTruncatedProduct ==
    /\ FixedViewportCases
    /\ Accepted =>
           /\ TruncatedTo(projected.result[1], ScreenXOf(projected))
           /\ TruncatedTo(projected.result[2], ScreenYOf(projected))

\* an accepted point left of the screen whose product is negative and not an
\* integer: truncation moves it toward the screen
C15_Witness ==
    /\ Accepted
    /\ FLt(ScreenXOf(projected), F0)
    /\ F(projected.result[1]) # ScreenXOf(projected)
    /\ FLt(ScreenXOf(projected), F(projected.result[1]))

(***************************************************************************)
(* The margin-widened frustum cull (SpecProject).                          *)
(***************************************************************************)
\* the recorded point is in front of the camera and its clip w is not tiny
InFront(pr) ==
    /\ pr.done
    /\ FLt(ViewZ(pr.point, camera), F0)
    /\ ~FLt(FAbs(ClipOf(pr)[4]), Rat(1, 1000000))

OutsideMargin(pr) ==
    \/ FLt(Rat(3, 2), FAbs(NdcOf(pr)[1]))
    \/ FLt(Rat(3, 2), FAbs(NdcOf(pr)[2]))

\* C16: for a point in front of the camera with |clip.w| >= 1e-6,
\* project_3d_to_2d returns None if and only if |ndc.x| > 1.5 or
\* |ndc.y| > 1.5; points between 1 and 1.5 are accepted, and every returned
\* screen_x lies in [-0.25 width, 1.25 width], every returned screen_y in
\* [-0.25 height, 1.25 height].
C16_CullAtMarginOnly ==
    InFront(projected) =>
        /\ projected.result = None <=> OutsideMargin(projected)
        /\ projected.result # None =>
               /\ -projected.size[1] <= 4 * projected.result[1]
               /\ 4 * projected.result[1] <= 5 * projected.size[1]
               /\ -projected.size[2] <= 4 * projected.result[2]
               /\ 4 * projected.result[2] <= 5 * projected.size[2]

\* a point above the screen and inside the margin, 1 < |ndc.y| < 1.5,
\* accepted with a negative screen_y
C16_Witness ==
    /\ InFront(projected) /\ projected.result # None
    /\ FLt(F1, NdcOf(projected)[2]) /\ FLt(NdcOf(projected)[2], Rat(3, 2))
    /\ projected.result[2] < 0

(***************************************************************************)
(* The faces draw_voxel draws (SpecRender).                                *)
(***************************************************************************)
\* the faces by the vertex indices of the source (0-based)
FrontTopRight == {<<4, 5, 6, 7>>, <<2, 3, 7, 6>>, <<1, 2, 6, 5>>}
BackBottomLeft == {<<0, 1, 2, 3>>, <<0, 1, 5, 4>>, <<0, 3, 7, 4>>}

FaceComplete(visit, face) == \A k \in 1..4 : visit.vertices_2d[face[k] + 1] # None
FacePoints(visit, face) ==
    [k \in 1..4 |-> <<visit.vertices_2d[face[k] + 1][1], visit.vertices_2d[face[k] + 1][2]>>]
\* the polygons the frame received for the i-th visit by calls of kind op
PolygonsOf(i, op) ==
    {frame[c].call.points : c \in {d \in DOMAIN frame : frame[d].voxel = i /\ frame[d].call.op = op}}
CompletePriority(visit) == {f \in FrontTopRight : FaceComplete(visit, f)}

\* C17: with no ZBuffer, draw_voxel fills and outlines a face if and only if
\* it is one of front [4,5,6,7], top [2,3,7,6], right [1,2,6,5] and all four
\* of its projected vertices are non-None; a face with a rejected vertex is
\* skipped without affecting the others, back, bottom and left are never
\* drawn, and draw_voxel returns True exactly when some face was filled.
C17_PriorityFacesOnly ==
    rendered =>
        /\ \A i \in DOMAIN draw_order :
               /\ PolygonsOf(i, "fillPoly")
                      = {FacePoints(draw_order[i], f) : f \in CompletePriority(draw_order[i])}
               /\ PolygonsOf(i, "polylines") = PolygonsOf(i, "fillPoly")
               /\ Cardinality({c \in DOMAIN frame : frame[c].voxel = i})
                      = 2 * Cardinality(CompletePriority(draw_order[i]))
               /\ \A f \in BackBottomLeft :
                      FaceComplete(draw_order[i], f) =>
                          FacePoints(draw_order[i], f) \notin PolygonsOf(i, "fillPoly")
        /\ voxels_drawn
               = Cardinality({i \in DOMAIN draw_order : PolygonsOf(i, "fillPoly") # {}})

\* a voxel with rejected vertices of which one priority face is drawn, another
\* priority face is skipped and a complete back, bottom or left face is not
\* drawn
C17_Witness ==
    /\ rendered
    /\ \E i \in DOMAIN draw_order :
           /\ \E f \in FrontTopRight : ~FaceComplete(draw_order[i], f)
           /\ \E f \in FrontTopRight :
                  /\ FaceComplete(draw_order[i], f)
                  /\ FacePoints(draw_order[i], f) \in PolygonsOf(i, "fillPoly")
           /\ \E f \in BackBottomLeft : FaceComplete(draw_order[i], f)
    /\ voxels_drawn >= 1

(***************************************************************************)
(* The depth test (SpecZBuffer).                                           *)
(***************************************************************************)
InsideBuffer(c) == c.x >= 0 /\ c.x < zbuffer.width /\ c.y >= 0 /\ c.y < zbuffer.height
\* the depths submitted at pixel (x, y) by the first n calls since clear()
SubmittedAt(x, y, n) == {zb_calls[i].depth : i \in {j \in 1..n : zb_calls[j].x = x /\ zb_calls[j].y = y}}
\* the minimum of a set of depths, infinity for none
MinimumOf(depths) ==
    IF depths = {} THEN Infinity
    ELSE CHOOSE d \in depths : \A e \in depths : FLe(d, e)

\* C18: test_and_set(x, y, depth) returns True and stores depth if and only
\* if (x, y) is inside the buffer and depth is strictly less than the stored
\* value, otherwise it returns False and changes nothing; so after any calls
\* since the last clear() each pixel holds the minimum depth submitted at it
\* (infinity if none) and a second submission of an equal depth is rejected.
C18_PixelHoldsStrictMinimum ==
    /\ \A n \in DOMAIN zb_calls :
           zb_calls[n].result
               <=> /\ InsideBuffer(zb_calls[n])
                   /\ \A d \in SubmittedAt(zb_calls[n].x, zb_calls[n].y, n - 1) :
                          FLt(zb_calls[n].depth, d)
    /\ \A p \in DOMAIN zbuffer.buffer :
           zbuffer.buffer[p] = MinimumOf(SubmittedAt(p[2], p[1], Len(zb_calls)))
    /\ \A i \in DOMAIN zb_calls : \A j \in DOMAIN zb_calls :
           (i < j /\ zb_calls[i].x = zb_calls[j].x /\ zb_calls[i].y = zb_calls[j].y
                  /\ zb_calls[i].depth = zb_calls[j].depth) => ~zb_calls[j].result

(***************************************************************************)
(* Camera3D.look_at (SpecProject).                                         *)
(***************************************************************************)
\* a step that is a look_at call
LookAtStep == looked_at' # None /\ <<camera, looked_at>>' # <<camera, looked_at>>

\* C19: look_at(target) never sets roll: it changes only pitch and yaw, so
\* the roll component after the call equals the roll component before it
\* (also when it was non-zero), and position, fov, near and far are
\* unchanged.
C19_LookAtKeepsRoll ==
    [][LookAtStep =>
          /\ camera'.rotation[3] = camera.rotation[3]
          /\ camera'.position = camera.position
          /\ camera'.fov = camera.fov
          /\ camera'.near = camera.near /\ camera'.far = camera.far]_vars

\* C20: after look_at(target) with target different from the camera
\* position the camera points at the target: the target's view-space Z under
\* get_view_matrix() is negative, so project_3d_to_2d does not reject the
\* target as behind the camera, for targets on either side of the camera
\* along the world Z axis and along the world X axis.
C20_LookAtFacesTarget ==
    (looked_at # None /\ looked_at # camera.position) =>
        FLt(ViewZ(looked_at, camera), F0)

(***************************************************************************)
(* What a render pass writes (SpecRender).                                 *)
(***************************************************************************)
\* the voxel map as a set of (key, colour) entries
Entries(voxels) == {voxels[i] : i \in DOMAIN voxels}
PassStep == ~rendered /\ rendered'

FilledVisits == {i \in DOMAIN draw_order : PolygonsOf(i, "fillPoly") # {}}
NoVertexVisits == {i \in DOMAIN draw_order : \A k \in 1..8 : draw_order[i].vertices_2d[k] = None}
\* at least one valid vertex, no priority face with all four valid
FacelessVisits ==
    {i \in DOMAIN draw_order :
        /\ \E k \in 1..8 : draw_order[i].vertices_2d[k] # None
        /\ CompletePriority(draw_order[i]) = {}}

\* C29: no voxel is counted both as drawn and as clipped, and voxels_drawn +
\* voxels_clipped <= the number of voxels in the grid; a voxel with at least
\* one valid projected vertex but no priority face with all four vertices
\* valid is counted as neither.
C29_DrawnAndClippedDisjoint ==
    rendered =>
        /\ voxels_drawn = Cardinality(FilledVisits)
        /\ voxels_clipped = Cardinality(NoVertexVisits)
        /\ FilledVisits \cap NoVertexVisits = {}
        /\ voxels_drawn + voxels_clipped <= Len(grid)
        /\ FacelessVisits \cap (FilledVisits \cup NoVertexVisits) = {}
        /\ voxels_drawn + voxels_clipped = Len(grid) - Cardinality(FacelessVisits)

\* a pass with a drawn voxel, a clipped voxel and a voxel that has four or
\* more valid vertices but no complete priority face
C29_Witness ==
    /\ rendered
    /\ voxels_drawn >= 1 /\ voxels_clipped >= 1
    /\ \E i \in FacelessVisits : ValidCount(draw_order[i]) >= 4
    /\ voxels_drawn + voxels_clipped < Len(grid)

(***************************************************************************)
(* The object transform as an affine map (SpecGrid).                       *)
(***************************************************************************)
\* C30: after any sequence of translate, rotate and scale calls on a fresh
\* grid the bottom row of the transform is (0, 0, 0, 1), so transform_point
\* returns w' = 1 for every point and discarding w when moving centres and
\* vertices to world space loses nothing.
C30_TransformStaysAffine ==
    /\ transform[4] = <<F0, F0, F0, F1>>
    /\ \A p \in Points : transform_point(transform, p)[4] = F1

\* a scaled and then moved or turned object
C30_Witness ==
    /\ Len(ops) = 2 /\ ops[1].kind = "scale" /\ ops[1].factor = F(2)
    /\ ops[2].kind \in {"translate", "rotate"}
    /\ transform[4] = <<F0, F0, F0, F1>>
    /\ transform[1][1] # F1

(***************************************************************************)
(* A collapsed object transform (SpecCollapse): translate, rotate and      *)
(* scale calls with set_transform replacing the matrix at any time; ops    *)
(* holds the calls made since the matrix was last set.                     *)
(***************************************************************************)
\* the invertible matrices handed to set_transform
Replacements ==
    {identity,
     multiply(from_scale(F(2), F(2), F(2)),
              multiply(from_rotation_x(<<1, 0>>), from_translation(F(1), F(0), F(0))))}

\* VoxelGrid.set_transform(matrix) with an invertible matrix
ReplaceTransform ==
    \E matrix \in Replacements :
        /\ transform' = matrix
        /\ ops' = <<>>
        /\ call' = Call("set_transform", "", "returned")
        /\ raw_point' = None
        /\ NewFrame
        /\ UNCHANGED <<grid, cursor_pos, notGrid>>

CollapseNext == Translate \/ Rotate \/ Scale \/ ReplaceTransform

SpecCollapse == GridSpecInit /\ [][CollapseNext]_vars

Singular(m) == inverse(m) = None
TransformCall == call'.name \in {"translate", "rotate", "scale"}
ZeroScaleCall == call'.name = "scale" /\ ops'[Len(ops')].factor = F0

\* C28: a singular object transform stays singular after every translate,
\* rotate and scale call, so inverse() returns None from a scale(0) on until
\* set_transform replaces the matrix; and translate, rotate and scale with a
\* non-zero factor never turn an invertible transform into a singular one.
C28_SingularityIsAbsorbing ==
    [][/\ (Singular(transform) /\ TransformCall) => Singular(transform')
       /\ (~Singular(transform) /\ TransformCall /\ ~ZeroScaleCall)
              => ~Singular(transform')
       /\ (~Singular(transform) /\ ZeroScaleCall) => Singular(transform')
       /\ call'.name = "set_transform" => ~Singular(transform')]_vars

\* a collapsed transform that was moved afterwards and still has no inverse
C28_Witness ==
    /\ Len(ops) = 2
    /\ ops[1].kind = "scale" /\ ops[1].factor = F0
    /\ ops[2].kind = "translate"
    /\ transform[1][4] # F0
    /\ Singular(transform)

(***************************************************************************)
(* Hysteresis of the stable gesture (SpecGesture).                         *)
(***************************************************************************)
UpdateStep == Len(updates') = Len(updates) + 1
Detected == updates'[Len(updates')].detected
\* the last n update() calls, this one included, all detected gesture g
DetectedInARow(g, n) ==
    /\ Len(updates') >= n
    /\ \A i \in (Len(updates') - n + 1)..Len(updates') : updates'[i].detected = g

\* C22: the stable gesture returned by update() changes to g only at an
\* update where g has been the detected gesture in at least stability_frames
\* consecutive update() calls, this one included; a detection that differs
\* from the stable gesture and from the candidate restarts the count at 1,
\* and a detection equal to the stable gesture clears the count.
C22_SwitchNeedsStableRun ==
    [][UpdateStep =>
        /\ updates'[Len(updates')].returned = sm'.current_gesture
        /\ sm'.current_gesture # sm.current_gesture
              => /\ sm'.current_gesture = Detected
                 /\ DetectedInARow(Detected, sm.stability_frames)
        /\ (Detected # sm.current_gesture /\ Detected # sm.candidate_gesture)
              => /\ sm'.candidate_count = 1
                 /\ sm'.candidate_gesture = Detected
                 /\ sm'.current_gesture = sm.current_gesture
        /\ Detected = sm.current_gesture
              => /\ sm'.candidate_count = 0
                 /\ sm'.current_gesture = sm.current_gesture]_vars

\* with stability_frames = 3: two detections of one gesture, one of another,
\* and then three of the first, the last of which switches the stable gesture
C22_Witness ==
    /\ sm.stability_frames = 3
    /\ Len(updates) = 5
    /\ updates[1].detected = "pinch"
    /\ updates[2].detected = "pointer"
    /\ \A i \in 3..5 : updates[i].detected = "pinch"
    /\ updates[4].returned = "NONE"
    /\ updates[5].returned = "pinch"

\* the stable gesture before the i-th update() call
StableBefore(i) == IF i = 1 THEN "NONE" ELSE updates[i - 1].returned

\* C23: for every stability_frames = N >= 1 and gesture g different from the
\* stable gesture, the N-th of N update(g) calls in a row returns g.
C23_SwitchAtNthDetection ==
    \A n \in 1..Len(updates) :
        LET first == n - sm.stability_frames + 1
            g == updates[n].detected
        IN  (/\ first >= 1
             /\ \A i \in first..n : updates[i].detected = g
             /\ StableBefore(first) # g)
            => updates[n].returned = g

(***************************************************************************)
(* The undo / redo history of the ToolManager (SpecTool).                  *)
(***************************************************************************)
\* a use_tool call that placed or erased a voxel (it set last_action_time)
Recorded == since_action' = F0 /\ since_action # F0

\* k undo() calls, and k redo() calls, one after the other
RECURSIVE Undos(_, _)
Undos(outcome, k) ==
    IF k = 0 THEN outcome ELSE Undos(undo(outcome.tm, outcome.voxels), k - 1)

RECURSIVE Redos(_, _)
Redos(outcome, k) ==
    IF k = 0 THEN outcome ELSE Redos(redo(outcome.tm, outcome.voxels), k - 1)

\* the voxel map and both stacks after k undos and k redos are those of now
RoundTrip(k) ==
    LET redone == Redos(Undos(Outcome(tm, grid, TRUE, FALSE), k), k)
    IN  /\ Entries(redone.voxels) = Entries(grid)
        /\ redone.tm.undo_stack = tm.undo_stack
        /\ redone.tm.redo_stack = tm.redo_stack

\* undo() right after a recorded action gives the map of before the action,
\* and redo() right after that undo() the map of after it
UndoRestores ==
    Recorded =>
        LET undone == undo(tm', grid')
            redone == redo(undone.tm, undone.voxels)
        IN  /\ undone.result = TRUE
            /\ Entries(undone.voxels) = Entries(grid)
            /\ redone.result = TRUE
            /\ Entries(redone.voxels) = Entries(grid')

\* C24 as stated: undo() after a recorded action restores the map of before
\* the action and redo() right after it the map of after the action; k undos
\* followed by k redos leave the map and both stacks as they were, for every k.
C24_RoundTripForEveryK ==
    /\ [][UndoRestores]_vars
    /\ [](\A k \in 1..MaxRoundTrip : RoundTrip(k))

\* C24: undo() after a recorded action restores the map of before the action
\* and redo() right after it the map of after the action; k undos followed
\* by k redos leave the map and both stacks as they were whenever the undo
\* stack holds at least k actions or the redo stack is empty.
C24_RoundTripWithinHistory ==
    /\ [][UndoRestores]_vars
    /\ [](\A k \in 1..MaxRoundTrip :
              (k <= Len(tm.undo_stack) \/ tm.redo_stack = <<>>) => RoundTrip(k))

\* the erase of the green voxel on the undo stack and a placement on the redo
\* stack: undoing puts the green voxel back, and one undo with one redo
\* returns here
C24_Witness ==
    /\ Len(tm.undo_stack) = 1
    /\ tm.redo_stack # <<>>
    /\ tm.undo_stack[1].type = "ERASE_VOXEL"
    /\ tm.undo_stack[1].inverse_data.color = "green"
    /\ get_current_color(tm) # "green"
    /\ ~HasVoxel(grid, <<0, 0, 0>>)
    /\ get_voxel(undo(tm, grid).voxels, <<0, 0, 0>>) = "green"
    /\ RoundTrip(1)

\* C25: after a use_tool call that places or erases a voxel the redo stack is
\* empty, and redo() returns False and changes neither the voxel map nor the
\* undo stack.
C25_NewActionClearsRedo ==
    [][Recorded =>
          /\ tm'.redo_stack = <<>>
          /\ redo(tm', grid').result = FALSE
          /\ redo(tm', grid').voxels = grid'
          /\ redo(tm', grid').tm.undo_stack = tm'.undo_stack]_vars

\* a voxel just placed on top of an older action, with nothing to redo
C25_Witness ==
    /\ since_action = F0
    /\ Len(tm.undo_stack) >= 2
    /\ tm.undo_stack[Len(tm.undo_stack)].type = "PLACE_VOXEL"
    /\ HasVoxel(grid, <<0, 0, 0>>)
    /\ tm.redo_stack = <<>>
    /\ redo(tm, grid).result = FALSE

\* the stacks after the step hold the actions of before it, one moved
MovedToRedo ==
    /\ tm'.undo_stack = PopLast(tm.undo_stack)
    /\ tm'.redo_stack = Append(tm.redo_stack, tm.undo_stack[Len(tm.undo_stack)])
MovedToUndo ==
    /\ tm'.redo_stack = PopLast(tm.redo_stack)
    /\ tm'.undo_stack = Append(tm.undo_stack, tm.redo_stack[Len(tm.redo_stack)])

\* C26: len(undo_stack) <= max_history and len(undo_stack) + len(redo_stack)
\* <= max_history after any sequence of use_tool, undo and redo calls; an
\* action recorded on a full undo stack drops the oldest one; undo() and
\* redo() only move an action between the stacks.
C26_HistoryBound ==
    [][/\ Len(tm'.undo_stack) <= max_history
       /\ Len(tm'.undo_stack) + Len(tm'.redo_stack) <= max_history
       /\ (Recorded /\ Len(tm.undo_stack) = max_history)
             => /\ Len(tm'.undo_stack) = max_history
                /\ \A i \in 1..(max_history - 1) :
                       tm'.undo_stack[i] = tm.undo_stack[i + 1]
                /\ tm'.undo_stack[max_history] # tm.undo_stack[max_history]
       /\ (Recorded /\ Len(tm.undo_stack) < max_history)
             => PopLast(tm'.undo_stack) = tm.undo_stack
       /\ ~Recorded
             => \/ UNCHANGED <<tm.undo_stack, tm.redo_stack>>
                \/ MovedToRedo
                \/ MovedToUndo]_vars

\* a full history from which the erase of the green voxel, the oldest action,
\* has been dropped
C26_Witness ==
    /\ Len(tm.undo_stack) = max_history
    /\ tm.redo_stack = <<>>
    /\ \E i \in DOMAIN grid : grid[i][2] = "green"
    /\ \A i \in DOMAIN tm.undo_stack :
           tm.undo_stack[i].type = "ERASE_VOXEL"
              => tm.undo_stack[i].inverse_data.color = "red"

(***************************************************************************)
(* Placement by the VoxelEditor (SpecEdit).                                *)
(***************************************************************************)
PlaceStep == placed' # None
\* the four conditions of a placement, in the state the call is made in
MayPlace(position) ==
    /\ FLe(placement_cooldown, since_placement)
    /\ position # editor.last_placed_pos
    /\ Len(grid) < max_voxels
    /\ ~HasVoxel(grid, position)

\* C27: place_voxel(position) returns True and stores the current colour only
\* when the placement cooldown has elapsed, position differs from the last
\* placed position, the grid holds fewer than max_voxels voxels and position
\* is empty; otherwise it returns False and leaves the voxel map,
\* last_placed_pos and last_placement_time unchanged. It never overwrites a
\* voxel and never raises the count above max_voxels.
C27_PlaceOnlyWhenAllowed ==
    [][PlaceStep =>
        /\ placed'.result = MayPlace(placed'.position)
        /\ placed'.result
              => /\ Entries(grid') = Entries(grid) \cup
                         {<<placed'.position, Palette[editor.current_color_index + 1]>>}
                 /\ editor'.last_placed_pos = placed'.position
                 /\ since_placement' = F0
        /\ ~placed'.result
              => /\ grid' = grid
                 /\ editor'.last_placed_pos = editor.last_placed_pos
                 /\ since_placement' = since_placement
        /\ \A i \in DOMAIN grid : grid'[i] = grid[i]
        /\ Len(grid') <= max_voxels]_vars

\* the grid filled to max_voxels by a placement of the current colour (green)
\* on an empty site, after an erase at another site
C27_Witness ==
    /\ placed # None /\ placed.result
    /\ Len(grid) = max_voxels
    /\ editor.last_erased_pos # None
    /\ editor.last_erased_pos # placed.position
    /\ HasVoxel(grid, <<-1, 0, 0>>)
    /\ get_voxel(grid, placed.position) = Palette[editor.current_color_index + 1]
    /\ editor.current_color_index = 1

=============================================================================
